---------------------------- MODULE Spec2Model ----------------------------
(***************************************************************************)
(* Model of the allocation and goal-planning engine of the budgeting app   *)
(* (src/functions.py).  Every engine operation is a pure function of its   *)
(* arguments and keeps nothing between calls, so a behaviour of the model  *)
(* is one call made by a caller: the initial state holds the operation     *)
(* called and its arguments, and the call step computes the value the      *)
(* operation returns.                                                      *)
(*                                                                         *)
(* The reallocation planner and the goal ranking are computed as the code  *)
(* computes them, in IEEE-754 doubles modelled bit for bit: there the last *)
(* bit of an amount or of a score decides an outcome.  Elsewhere money is  *)
(* computed in exact arithmetic: where the code multiplies by a decimal    *)
(* constant (percentages / 100) the result is kept as an integer count of  *)
(* a fixed fraction of the input unit, named at each operation.            *)
(***************************************************************************)
EXTENDS Integers, Sequences, FiniteSets, TLC

VARIABLES
    pc,     \* "call" before the function has run, "done" once it has returned
    op,     \* name of the engine function called
    args,   \* the arguments of the call, a record
    ret     \* the value the call returned (NoneVal until it has returned)

vars == <<pc, op, args, ret>>

\* Python's None, as returned by the operations that have no result.
NoneVal == [none |-> TRUE]
\* a returned list, boxed so that it can be told from None
ListVal(list) == [list |-> list]

Max(a, b) == IF a >= b THEN a ELSE b
Min(a, b) == IF a <= b THEN a ELSE b

\* Python passes dicts and lists by reference.  An object is its identity
\* and its items: the object the caller passed, and an object the function
\* makes itself.
CallerObject(items) == [id |-> "caller", items |-> items]
NewObject(items) == [id |-> "new", items |-> items]

\* (mutant) a second name for the same dict instead of a copy
copy_Alias(object) == object

\* dict.copy(): a new dict with the same items
copy(object) == NewObject(object.items)

---------------------------------------------------------------------------
(* IEEE-754 double arithmetic.                                             *)
(*                                                                         *)
(* The amounts of a reallocation plan and the total score of a goal        *)
(* (urgency * 0.4 + roi * 0.3 + feasibility * 0.3) are computed by the     *)
(* code in doubles.  A plan drawn down to total_income * 0.05 can end one  *)
(* rounding step to either side of it, and two totals that are equal as    *)
(* decimals can differ in the last bit (0.8 + 0.6 + 1.2 against            *)
(* 0.8 + 1.2 + 0.6), which decides the order of the ranking.  A double d   *)
(* with 0 <= d < 16 is held exactly as the integer d * 2^54, in two limbs  *)
(* [hi, lo] of 27 bits: d * 2^54 = hi * 2^27 + lo.                         *)

LimbBase == 2^27

\* carry (or borrow) from the low limb into the high limb
Norm(hi, lo) == [hi |-> hi + (lo \div LimbBase), lo |-> lo % LimbBase]

\* The unit in the last place of a double whose high limb is hi: values
\* below 2^53 (hi < 2^26) are exact, and each further bit doubles it.
RECURSIVE UlpOf(_)
UlpOf(hi) == IF hi < 2^26 THEN 1 ELSE 2 * UlpOf(hi \div 2)

\* Round an exact value to the nearest double, ties to even.
FRound(x) ==
    LET ulp == UlpOf(x.hi)
        q == x.lo \div ulp
        rest == x.lo % ulp
        up == \/ 2 * rest > ulp
              \/ 2 * rest = ulp /\ q % 2 = 1
    IN Norm(x.hi, (IF up THEN q + 1 ELSE q) * ulp)

\* the doubles nearest to 0.4 and 0.3: 7205759403792794 * 2^-54 and
\* 5404319552844595 * 2^-54
Double04 == [hi |-> 53687091, lo |-> 26843546]
Double03 == [hi |-> 40265318, lo |-> 53687091]

\* the double of a small integer
FInt(k) == [hi |-> k * LimbBase, lo |-> 0]
\* k * d for an integer score 0 <= k <= 10
FMulInt(k, d) == FRound(Norm(k * d.hi, k * d.lo))
FAdd(x, y) == FRound(Norm(x.hi + y.hi, x.lo + y.lo))
FLt(x, y) == x.hi < y.hi \/ (x.hi = y.hi /\ x.lo < y.lo)
FGe(x, y) == ~FLt(x, y)

---------------------------------------------------------------------------
(* create_unified_reallocation_plan, src/functions.py:165-204              *)
(*                                                                         *)
(* The caller passes amounts in whole currency units.  The function keeps  *)
(* a floor of total_income * 0.05, a double, and every amount of the plan  *)
(* is a double the code gets by rounded subtractions and additions.  The   *)
(* amounts are held here exactly as the code holds them, in units of       *)
(* 2^-54.  Every double met here is 0 or at least 1/4, or a difference of  *)
(* such, and is a whole number of units.                                   *)

\* bounds of the inputs
MaxAmount == 3
MaxShortfall == 3
MaxIncomeSteps == 4

\* 0.05, as a percentage (src/functions.py:179)
FloorPct == 5
\* the number of units of income whose floor is one unit
MoneyScale == 100 \div FloorPct

Categories == {"savings", "investments", "personal", "misc"}

FZero == FInt(0)
\* x - y for x >= y
FSub(x, y) == FRound(Norm(x.hi - y.hi, x.lo - y.lo))
FMin(x, y) == IF FLt(y, x) THEN y ELSE x

\* The double nearest to 0.05 is 3602879701896397 * 2^-56, a quarter of a
\* unit more than Double005Floor units.
Double005Floor == [hi |-> 6710886, lo |-> 53687091]

\* k * d, exactly, for a whole number 0 <= k < 2^13: the low limb is
\* multiplied in two pieces, lo = a * 2^14 + b, so that no product leaves
\* 32 bits
ExactTimes(k, d) ==
    LET a == d.lo \div 2^14
        b == d.lo % 2^14
    IN Norm(k * d.hi + ((k * a) \div 2^13),
            ((k * a) % 2^13) * 2^14 + k * b)

\* min_amount = total_income * 0.05 (line 179), rounded to the nearest
\* double, ties to even; total_income is 0 or at least 5, so that the
\* product is 0 or at least 1/4
min_amount(total_income) ==
    LET whole == ExactTimes(total_income, Double005Floor)
        x == Norm(whole.hi, whole.lo + (total_income \div 4))
        quarters == total_income % 4
        ulp == UlpOf(x.hi)
        q == x.lo \div ulp
        rest4 == 4 * (x.lo % ulp) + quarters
        up == \/ 2 * rest4 > 4 * ulp
              \/ 2 * rest4 = 4 * ulp /\ q % 2 = 1
    IN Norm(x.hi, (IF up THEN q + 1 ELSE q) * ulp)

\* (mutant) personal drawn on before misc
reduction_priority_PersonalFirst == <<"personal", "misc">>

reduction_priority == <<"misc", "personal">>

\* The loop of lines 174-186 from position i of reduction_priority, on the
\* loop state st = [new_allocation, remaining_shortfall]; allocation is the
\* (unchanged) input the available amount is read from.
RECURSIVE ReduceFrom(_, _, _, _)
ReduceFrom(i, st, allocation, total_income) ==
    IF i > Len(reduction_priority) \/ ~FLt(FZero, st.remaining_shortfall)
    THEN st
    ELSE LET category == reduction_priority[i]
             floor == min_amount(total_income)
             available == IF FLt(floor, allocation[category])
                          THEN FSub(allocation[category], floor)
                          ELSE FZero
             reduction == FMin(available, st.remaining_shortfall)
             st2 == IF FLt(FZero, reduction)
                    THEN [new_allocation |->
                              [st.new_allocation EXCEPT
                                   ![category] = FSub(@, reduction)],
                          remaining_shortfall |->
                              FSub(st.remaining_shortfall, reduction)]
                    ELSE st
         IN ReduceFrom(i + 1, st2, allocation, total_income)

\* (mutant) investments raised by their whole shortfall once anything is left
Distribute_Uncapped(st, total_shortfall, savings_shortfall, investment_shortfall) ==
    IF FLt(st.remaining_shortfall, total_shortfall)
    THEN LET freed_amount == FSub(total_shortfall, st.remaining_shortfall)
             amount_to_savings ==
                 IF FLt(FZero, savings_shortfall)
                 THEN FMin(savings_shortfall, freed_amount) ELSE FZero
             amount_to_investments ==
                 IF FLt(FZero, investment_shortfall)
                 THEN investment_shortfall ELSE FZero
         IN [st.new_allocation EXCEPT
                 !["savings"] = FAdd(@, amount_to_savings),
                 !["investments"] = FAdd(@, amount_to_investments)]
    ELSE NoneVal

\* (mutant) a plan only when the whole shortfall was freed
Distribute_OnlyWhenCovered(st, total_shortfall, savings_shortfall, investment_shortfall) ==
    IF ~FLt(FZero, st.remaining_shortfall)
           /\ FLt(st.remaining_shortfall, total_shortfall)
    THEN [st.new_allocation EXCEPT
              !["savings"] = FAdd(@, savings_shortfall),
              !["investments"] = FAdd(@, investment_shortfall)]
    ELSE NoneVal

\* (mutant) the freed amount handed to investments first, then savings
Distribute_InvestmentsFirst(st, total_shortfall, savings_shortfall, investment_shortfall) ==
    IF FLt(st.remaining_shortfall, total_shortfall)
    THEN LET freed_amount == FSub(total_shortfall, st.remaining_shortfall)
             amount_to_investments ==
                 IF FLt(FZero, investment_shortfall)
                 THEN FMin(investment_shortfall, freed_amount) ELSE FZero
             freed2 == FSub(freed_amount, amount_to_investments)
             amount_to_savings ==
                 IF FLt(FZero, savings_shortfall) /\ FLt(FZero, freed2)
                 THEN FMin(savings_shortfall, freed2) ELSE FZero
         IN [st.new_allocation EXCEPT
                 !["savings"] = FAdd(@, amount_to_savings),
                 !["investments"] = FAdd(@, amount_to_investments)]
    ELSE NoneVal

\* Lines 188-204: hand the freed amount to savings first, then investments.
Distribute(st, total_shortfall, savings_shortfall, investment_shortfall) ==
    IF FLt(st.remaining_shortfall, total_shortfall)
    THEN LET freed_amount == FSub(total_shortfall, st.remaining_shortfall)
             amount_to_savings ==
                 IF FLt(FZero, savings_shortfall)
                 THEN FMin(savings_shortfall, freed_amount) ELSE FZero
             freed2 == FSub(freed_amount, amount_to_savings)
             amount_to_investments ==
                 IF FLt(FZero, investment_shortfall) /\ FLt(FZero, freed2)
                 THEN FMin(investment_shortfall, freed2) ELSE FZero
         IN [st.new_allocation EXCEPT
                 !["savings"] = FAdd(@, amount_to_savings),
                 !["investments"] = FAdd(@, amount_to_investments)]
    ELSE NoneVal

\* The function on an allocation and shortfalls that are doubles;
\* total_income is a whole number.  The result is the plan or NoneVal.
create_unified_reallocation_plan(allocation, savings_shortfall, investment_shortfall, total_income) ==
    LET total_shortfall == FAdd(savings_shortfall, investment_shortfall)
        st0 == [new_allocation |-> allocation,
                remaining_shortfall |-> total_shortfall]
        st == ReduceFrom(1, st0, allocation, total_income)
    IN Distribute(st, total_shortfall, savings_shortfall,
                  investment_shortfall)

\* The caller's allocation once the function has returned plan (or None).
\* The function writes to new_allocation only, the copy of line 167: the
\* writes of lines 184 and 194-199 change it exactly when a plan is
\* returned.
PlanCallerAllocation(allocation, plan) ==
    LET caller == CallerObject(allocation)
        new_allocation ==
            [copy(caller) EXCEPT !.items =
                IF plan = NoneVal THEN allocation ELSE plan]
    IN IF new_allocation.id = caller.id
       THEN new_allocation.items
       ELSE caller.items

Allocations == [Categories -> 0..MaxAmount]
Shortfalls == 0..MaxShortfall

\* At a total_income that is a multiple of half the scale,
\* total_income * 0.05 is a whole number of halves, and the floor and every
\* amount of the plan are doubles the code gets without rounding.  The
\* incomes at which it rounds are those of SpecReplan below.
IncomeStep == MoneyScale \div 2
Incomes == {k * IncomeStep : k \in 0..MaxIncomeSteps}

\* the whole amounts of the caller as the doubles the code is handed
ToDouble(allocation) == [c \in DOMAIN allocation |-> FInt(allocation[c])]

\* what the caller passes, in whole units
CallerArgs ==
    [allocation : Allocations, savings_shortfall : Shortfalls,
     investment_shortfall : Shortfalls]

\* the arguments of a call: the amounts as doubles, total_income whole
PlanArgs(a, total_income) ==
    [allocation |-> ToDouble(a.allocation),
     savings_shortfall |-> FInt(a.savings_shortfall),
     investment_shortfall |-> FInt(a.investment_shortfall),
     total_income |-> total_income]

InitPlan ==
    /\ pc = "call"
    /\ op = "create_unified_reallocation_plan"
    /\ \E a \in CallerArgs, t \in Incomes : args = PlanArgs(a, t)
    /\ ret = NoneVal

CallPlan ==
    /\ pc = "call"
    /\ op = "create_unified_reallocation_plan"
    /\ LET plan == create_unified_reallocation_plan(
                       args.allocation, args.savings_shortfall,
                       args.investment_shortfall, args.total_income)
       IN /\ ret' = plan
          /\ args' = [args EXCEPT !.allocation =
                          PlanCallerAllocation(args.allocation, plan)]
    /\ pc' = "done"
    /\ UNCHANGED op

NextPlan == CallPlan
SpecPlan == InitPlan /\ [][NextPlan]_vars

IsPlanCall == op = "create_unified_reallocation_plan" /\ pc = "done"
PlanReturned == IsPlanCall /\ ret # NoneVal
Total(allocation) ==
    allocation["savings"] + allocation["investments"]
        + allocation["personal"] + allocation["misc"]

\* Exact amounts, for stating the claims: an amount is a whole number of
\* units of 2^-54 and of fifths of a unit, [hi, lo, fifths] with
\* amount * 2^54 = hi * 2^27 + lo + fifths / 5, 0 <= lo < 2^27 and
\* 0 <= fifths < 5.  No rounding takes place in these.
Exact(hi, lo, fifths) ==
    LET n == Norm(hi, lo + (fifths \div 5))
    IN [hi |-> n.hi, lo |-> n.lo, fifths |-> fifths % 5]
\* a double, as an exact amount
OfDouble(d) == Exact(d.hi, d.lo, 0)
Plus(x, y) == Exact(x.hi + y.hi, x.lo + y.lo, x.fifths + y.fifths)
Minus(x, y) == Exact(x.hi - y.hi, x.lo - y.lo, x.fifths - y.fifths)
Less(x, y) ==
    \/ x.hi < y.hi
    \/ x.hi = y.hi /\ x.lo < y.lo
    \/ x.hi = y.hi /\ x.lo = y.lo /\ x.fifths < y.fifths
AtMost(x, y) == ~Less(y, x)
Least(x, y) == IF Less(y, x) THEN y ELSE x
Nothing == Exact(0, 0, 0)
\* the sum of the four amounts of an allocation of doubles: the whole units
\* and the part below one unit of currency
ExactTotal(allocation) ==
    LET Whole(d) == d.hi \div LimbBase
        Part(d) == Exact(d.hi % LimbBase, d.lo, 0)
        parts == Plus(Plus(Part(allocation["savings"]),
                           Part(allocation["investments"])),
                      Plus(Part(allocation["personal"]),
                           Part(allocation["misc"])))
    IN [whole |-> Whole(allocation["savings"])
                      + Whole(allocation["investments"])
                      + Whole(allocation["personal"])
                      + Whole(allocation["misc"])
                      + (parts.hi \div LimbBase),
        part |-> [parts EXCEPT !.hi = @ % LimbBase]]

\* 0.05 * total_income, the number itself (not the double min_amount):
\* 0.05 * 2^54 is 900719925474099 units and a fifth, which is
\* Double005Floor and a fifth
RealFloor(total_income) ==
    LET whole == ExactTimes(total_income, Double005Floor)
    IN Exact(whole.hi, whole.lo, total_income)

\* what an amount has above 0.05 * total_income
AboveFloor(amount, total_income) ==
    LET above == Minus(OfDouble(amount), RealFloor(total_income))
    IN IF Less(above, Nothing) THEN Nothing ELSE above
\* what misc and personal together can give up above their floors
Available ==
    Plus(AboveFloor(args.allocation.misc, args.total_income),
         AboveFloor(args.allocation.personal, args.total_income))
\* the combined shortfall of the call
CombinedShortfall ==
    Plus(OfDouble(args.savings_shortfall),
         OfDouble(args.investment_shortfall))

\* C1: whenever create_unified_reallocation_plan returns a plan, the four
\* amounts of the plan sum to the sum of the input allocation's amounts.
C1_PlanPreservesTotal ==
    PlanReturned => ExactTotal(ret) = ExactTotal(args.allocation)

\* A plan that took from both misc and personal and raised both savings
\* and investments.
C1_Witness ==
    /\ PlanReturned
    /\ FLt(ret.misc, args.allocation.misc)
    /\ FLt(ret.personal, args.allocation.personal)
    /\ FLt(args.allocation.savings, ret.savings)
    /\ FLt(args.allocation.investments, ret.investments)

\* C2: a plan is returned only when the freed amount covers both shortfalls:
\* every returned plan raises savings by the whole savings_shortfall and
\* investments by the whole investment_shortfall, and the function returns
\* None when the funds above the floors are less than the combined shortfall.
C2_PlanOnlyWhenFullyCovered ==
    IsPlanCall =>
        /\ ret # NoneVal =>
              /\ OfDouble(ret.savings)
                   = Plus(OfDouble(args.allocation.savings),
                          OfDouble(args.savings_shortfall))
              /\ OfDouble(ret.investments)
                   = Plus(OfDouble(args.allocation.investments),
                          OfDouble(args.investment_shortfall))
        /\ Less(Available, CombinedShortfall) => ret = NoneVal

\* C21: create_unified_reallocation_plan returns a plan exactly when the
\* combined shortfall is positive and misc or personal is strictly above
\* 0.05 * total_income (so that a positive amount was taken), also when the
\* freed amount is less than the combined shortfall; otherwise it returns
\* None, in particular when both shortfalls are 0.
C21_PlanIffAnythingFreed ==
    IsPlanCall =>
        (ret # NoneVal <=> (/\ Less(Nothing, CombinedShortfall)
                            /\ Less(Nothing, Available)))

\* A plan returned although misc and personal together, above their
\* floors, hold less than the combined shortfall.
C21_Witness ==
    /\ PlanReturned
    /\ Less(Nothing, Available)
    /\ Less(Available, CombinedShortfall)

\* freed: what the plan removed from misc and personal
Freed ==
    Plus(Minus(OfDouble(args.allocation.misc), OfDouble(ret.misc)),
         Minus(OfDouble(args.allocation.personal), OfDouble(ret.personal)))
SavingsRise == Minus(OfDouble(ret.savings), OfDouble(args.allocation.savings))
InvestmentsRise ==
    Minus(OfDouble(ret.investments), OfDouble(args.allocation.investments))

\* C22: in every returned plan savings rises by exactly
\* min(savings_shortfall, freed) and investments by exactly the rest of
\* freed, and neither rises by more than its own shortfall.
C22_SavingsServedFirst ==
    PlanReturned =>
        /\ SavingsRise = Least(OfDouble(args.savings_shortfall), Freed)
        /\ InvestmentsRise = Minus(Freed, SavingsRise)
        /\ AtMost(SavingsRise, OfDouble(args.savings_shortfall))
        /\ AtMost(InvestmentsRise, OfDouble(args.investment_shortfall))

\* A plan that met the whole savings shortfall and only a part of the
\* investment shortfall.
C22_Witness ==
    /\ PlanReturned
    /\ FLt(FZero, args.savings_shortfall)
    /\ SavingsRise = OfDouble(args.savings_shortfall)
    /\ Less(Nothing, InvestmentsRise)
    /\ Less(InvestmentsRise, OfDouble(args.investment_shortfall))

\* C23: personal is lower in the plan than in the input only if misc has
\* given up everything it had above the floor:
\* plan misc = input misc - max(0, input misc - 0.05 * total_income).
C23_MiscDrainedBeforePersonal ==
    PlanReturned =>
        (FLt(ret.personal, args.allocation.personal)
            => OfDouble(ret.misc)
                 = Minus(OfDouble(args.allocation.misc),
                         AboveFloor(args.allocation.misc, args.total_income)))

\* A plan that lowered personal after taking a positive amount from misc
\* and leaving misc at a positive floor.
C23_Witness ==
    /\ PlanReturned
    /\ FLt(ret.personal, args.allocation.personal)
    /\ FLt(ret.misc, args.allocation.misc)
    /\ FLt(FZero, ret.misc)

---------------------------------------------------------------------------
(* allocate_budget, src/functions.py:1-8                                   *)
(*                                                                         *)
(* total_amount is in whole units and the percentages are whole per cent;  *)
(* each amount total_amount * (pct / 100) is returned in hundredths of a   *)
(* unit (PctBase), in which it is an integer.                              *)

MaxTotal == 3

\* the divisor of a percentage (src/functions.py:4)
PctBase == 100
\* the default of misc_pct (src/functions.py:1)
DefaultMiscPct == 15

\* total_amount * (pct / 100), in hundredths
Share(total_amount, pct) == (total_amount * PctBase * pct) \div 100

\* (mutant) the misc share always computed from the default percentage
allocate_budget_DefaultMisc(total_amount, savings_pct, investment_pct, personal_pct, misc_pct) ==
    [savings |-> Share(total_amount, savings_pct),
     investments |-> Share(total_amount, investment_pct),
     personal |-> Share(total_amount, personal_pct),
     misc |-> Share(total_amount, DefaultMiscPct)]

allocate_budget(total_amount, savings_pct, investment_pct, personal_pct, misc_pct) ==
    [savings |-> Share(total_amount, savings_pct),
     investments |-> Share(total_amount, investment_pct),
     personal |-> Share(total_amount, personal_pct),
     misc |-> Share(total_amount, misc_pct)]

\* Percentages a caller passes; the function validates nothing, so sets that
\* do not sum to 100 are passed too.
Pcts == {0, 10, 15, 20, 25, 30, 45, 50, 60, 100}
Totals == 0..MaxTotal

\* A call with all five arguments, or with misc_pct left to its default.
AllocateArgs ==
    {a \in [total_amount : Totals, savings_pct : Pcts, investment_pct : Pcts,
            personal_pct : Pcts, misc_pct : Pcts, misc_given : BOOLEAN] :
        a.misc_given \/ a.misc_pct = DefaultMiscPct}

InitAllocate ==
    /\ pc = "call"
    /\ op = "allocate_budget"
    /\ args \in AllocateArgs
    /\ ret = NoneVal

CallAllocate ==
    /\ pc = "call"
    /\ op = "allocate_budget"
    /\ ret' = allocate_budget(args.total_amount, args.savings_pct,
                              args.investment_pct, args.personal_pct, args.misc_pct)
    /\ pc' = "done"
    /\ UNCHANGED <<op, args>>

NextAllocate == CallAllocate
SpecAllocate == InitAllocate /\ [][NextAllocate]_vars

IsAllocateCall == op = "allocate_budget" /\ pc = "done"
PctSum == args.savings_pct + args.investment_pct + args.personal_pct + args.misc_pct

\* C4: for every total_amount and four non-negative percentages summing to
\* 100, the amounts returned by allocate_budget sum to total_amount, each
\* amount is total_amount * pct / 100 of its own category, and the keys are
\* exactly savings, investments, personal, misc (amounts in hundredths).
C4_AllocationSumsToTotal ==
    IsAllocateCall /\ PctSum = 100 =>
        /\ DOMAIN ret = {"savings", "investments", "personal", "misc"}
        /\ ret.savings + ret.investments + ret.personal + ret.misc
               = PctBase * args.total_amount
        /\ 100 * ret.savings = PctBase * args.total_amount * args.savings_pct
        /\ 100 * ret.investments = PctBase * args.total_amount * args.investment_pct
        /\ 100 * ret.personal = PctBase * args.total_amount * args.personal_pct
        /\ 100 * ret.misc = PctBase * args.total_amount * args.misc_pct

\* The allocation of a positive income by four percentages that sum to 100,
\* with personal, misc and savings shares all different.
C4_Witness ==
    /\ IsAllocateCall
    /\ PctSum = 100
    /\ args.total_amount > 1
    /\ args.misc_given
    /\ args.misc_pct # DefaultMiscPct
    /\ ret.savings # ret.personal
    /\ ret.personal # ret.misc
    /\ ret.misc > 0

---------------------------------------------------------------------------
(* Exact rational arithmetic for the time-value-of-money formulas.  A      *)
(* number is [num, den] in lowest terms with den > 0, so that two numbers  *)
(* are equal exactly when the records are.                                 *)

Abs(x) == IF x < 0 THEN -x ELSE x

RECURSIVE GCD(_, _)
GCD(a, b) == IF b = 0 THEN a ELSE GCD(b, a % b)

Rat(n, d) ==
    LET g == GCD(Abs(n), Abs(d))
        sgn == IF d < 0 THEN -1 ELSE 1
    IN [num |-> sgn * (n \div g), den |-> sgn * (d \div g)]

RInt(n) == [num |-> n, den |-> 1]
RAdd(x, y) == Rat(x.num * y.den + y.num * x.den, x.den * y.den)
RSub(x, y) == Rat(x.num * y.den - y.num * x.den, x.den * y.den)
\* the common factors are divided out before multiplying, to keep the
\* products small
RMul(x, y) ==
    LET g1 == GCD(Abs(x.num), y.den)
        g2 == GCD(Abs(y.num), x.den)
    IN Rat((x.num \div g1) * (y.num \div g2), (x.den \div g2) * (y.den \div g1))
\* x / y for y # 0
RDiv(x, y) == RMul(x, Rat(y.den, y.num))

RECURSIVE RPow(_, _)
RPow(x, k) == IF k = 0 THEN RInt(1) ELSE RMul(x, RPow(x, k - 1))

\* Python raises ZeroDivisionError on a division by zero (int or float).
ZeroDivisionError == [raises |-> "ZeroDivisionError"]

---------------------------------------------------------------------------
(* investment_goal_calculator, src/functions.py:24-34                      *)

MaxTargetSteps == 5
TargetStep == 100
MaxMonths == 3

\* (mutant) the annual rate used as the rate of one month
MonthlyRate_Annual(annual_return_pct) ==
    RDiv(RInt(annual_return_pct), RInt(100))

\* r = (annual_return_pct / 100) / 12
MonthlyRate(annual_return_pct) ==
    RDiv(RDiv(RInt(annual_return_pct), RInt(100)), RInt(12))

investment_goal_calculator(target_amount, months, annual_return_pct) ==
    LET r == MonthlyRate(annual_return_pct)
        n == months
    IN IF r = RInt(0)
       THEN IF n = 0 THEN ZeroDivisionError
            ELSE RDiv(RInt(target_amount), RInt(n))
       ELSE LET growth == RSub(RPow(RAdd(RInt(1), r), n), RInt(1))
            IN IF growth = RInt(0) THEN ZeroDivisionError
               ELSE RDiv(RMul(RInt(target_amount), r), growth)

Targets == {k * TargetStep : k \in 1..MaxTargetSteps}
\* annual returns in per cent; the monthly rates are 0, 1/100, 1/50, 1/20, 1/10
AnnualReturns == {0, 12, 24, 60, 120}

InvestmentArgs ==
    [target_amount : Targets, months : 0..MaxMonths,
     annual_return_pct : AnnualReturns]

InitInvestment ==
    /\ pc = "call"
    /\ op = "investment_goal_calculator"
    /\ args \in InvestmentArgs
    /\ ret = NoneVal

CallInvestment ==
    /\ pc = "call"
    /\ op = "investment_goal_calculator"
    /\ ret' = investment_goal_calculator(args.target_amount, args.months,
                                         args.annual_return_pct)
    /\ pc' = "done"
    /\ UNCHANGED <<op, args>>

NextInvestment == CallInvestment
SpecInvestment == InitInvestment /\ [][NextInvestment]_vars

IsInvestmentCall == op = "investment_goal_calculator" /\ pc = "done"

\* C5: for target > 0 and months > 0, investment_goal_calculator returns
\* target / months when annual_return_pct is 0, and otherwise the payment
\* PMT with PMT * ((1 + r)^months - 1) = target * r for the monthly rate
\* r = annual_return_pct / 1200.
C5_AnnuityPayment ==
    IsInvestmentCall /\ args.target_amount > 0 /\ args.months > 0 =>
        IF args.annual_return_pct = 0
        THEN /\ ret.den > 0
             /\ ret.num * args.months = args.target_amount * ret.den
        ELSE LET r == Rat(args.annual_return_pct, 1200)
                 lhs == RMul(ret, RSub(RPow(RAdd(RInt(1), r), args.months), RInt(1)))
             IN lhs = RMul(RInt(args.target_amount), r)

\* A payment over several months at a positive rate: less than the linear
\* payment target / months, and not a whole number.
C5_Witness ==
    /\ IsInvestmentCall
    /\ args.annual_return_pct = 12
    /\ args.months = MaxMonths
    /\ ret.den > 1
    /\ ret.num * args.months < args.target_amount * ret.den

---------------------------------------------------------------------------
(* asset_allocation_optimizer, src/functions.py:543-622                    *)
(*                                                                         *)
(* The percentages are computed in hundredths of a per cent (the code's    *)
(* values are multiples of 0.25 or of 0.1, which binary floating point     *)
(* holds exactly or to within rounding that round(x, 1) removes) and       *)
(* returned, as round(x, 1) returns them, in tenths of a per cent.         *)

MaxAge == 65
MaxTimeline == 6

\* hundredths in one per cent: the unit is a tenth of the tenth that
\* round(x, 1) keeps
H == 10 * 10

risk_profiles ==
    [conservative |-> [base_stocks |-> 30, base_bonds |-> 55, base_cash |-> 15],
     moderate     |-> [base_stocks |-> 60, base_bonds |-> 30, base_cash |-> 10],
     aggressive   |-> [base_stocks |-> 80, base_bonds |-> 15, base_cash |-> 5]]

\* str.lower() and str.capitalize(), letter by letter, on words of ASCII
\* letters: the lower-case letter of each capital and the capital of each
\* lower-case letter
LowerLetter ==
    [A |-> "a", B |-> "b", C |-> "c", D |-> "d", E |-> "e", F |-> "f",
     G |-> "g", H |-> "h", I |-> "i", J |-> "j", K |-> "k", L |-> "l",
     M |-> "m", N |-> "n", O |-> "o", P |-> "p", Q |-> "q", R |-> "r",
     S |-> "s", T |-> "t", U |-> "u", V |-> "v", W |-> "w", X |-> "x",
     Y |-> "y", Z |-> "z"]
UpperLetter ==
    [a |-> "A", b |-> "B", c |-> "C", d |-> "D", e |-> "E", f |-> "F",
     g |-> "G", h |-> "H", i |-> "I", j |-> "J", k |-> "K", l |-> "L",
     m |-> "M", n |-> "N", o |-> "O", p |-> "P", q |-> "Q", r |-> "R",
     s |-> "S", t |-> "T", u |-> "U", v |-> "V", w |-> "W", x |-> "X",
     y |-> "Y", z |-> "Z"]

\* str.lower()
RECURSIVE Lower(_)
Lower(str) ==
    IF Len(str) = 0 THEN ""
    ELSE LET first == SubSeq(str, 1, 1)
         IN (IF first \in DOMAIN LowerLetter THEN LowerLetter[first] ELSE first)
                \o Lower(SubSeq(str, 2, Len(str)))

\* str.capitalize(): the first letter as a capital, the rest in lower case
Capitalize(str) ==
    IF Len(str) = 0 THEN ""
    ELSE LET first == SubSeq(str, 1, 1)
         IN (IF first \in DOMAIN UpperLetter THEN UpperLetter[first] ELSE first)
                \o Lower(SubSeq(str, 2, Len(str)))

\* risk_profiles.get(risk_tolerance.lower(), risk_profiles['moderate'])
BaseProfile(risk_tolerance) ==
    LET profile == IF Lower(risk_tolerance) \in DOMAIN risk_profiles
                   THEN risk_profiles[Lower(risk_tolerance)]
                   ELSE risk_profiles["moderate"]
    IN [stock_pct |-> profile.base_stocks * H,
        bond_pct |-> profile.base_bonds * H,
        cash_pct |-> profile.base_cash * H]

\* (mutant) the adjustment growing with age
age_adj_OlderBolder(age) ==
    IF age < 30 THEN -20
    ELSE IF age < 40 THEN -10
    ELSE IF age < 50 THEN 0
    ELSE IF age < 60 THEN 5
    ELSE 10

\* lines 570-580, in per cent
age_adj(age) ==
    IF age < 30 THEN 10
    ELSE IF age < 40 THEN 5
    ELSE IF age < 50 THEN 0
    ELSE IF age < 60 THEN -10
    ELSE -20

\* (mutant) the age adjustment applied to every profile
ApplyAge_EveryProfile(p, age, risk_tolerance) ==
    LET stock_pct == Max(20 * H, Min(85 * H, p.stock_pct + age_adj(age) * H))
        remaining == 100 * H - stock_pct
    IN [stock_pct |-> stock_pct,
        bond_pct |-> (remaining * 75) \div 100,
        cash_pct |-> (remaining * 25) \div 100]

\* lines 582-587; remaining is a whole per cent, so remaining * 0.75 and
\* remaining * 0.25 are whole numbers of hundredths
ApplyAge(p, age, risk_tolerance) ==
    IF Lower(risk_tolerance) # "conservative"
    THEN LET stock_pct == Max(20 * H, Min(85 * H, p.stock_pct + age_adj(age) * H))
             remaining == 100 * H - stock_pct
         IN [stock_pct |-> stock_pct,
             bond_pct |-> (remaining * 75) \div 100,
             cash_pct |-> (remaining * 25) \div 100]
    ELSE p

\* (mutant) the remainder left for bonds taken with the wrong sign
ApplyTimeline_BondsNegated(p, timeline_years) ==
    IF timeline_years < 2
    THEN LET stock_pct == Max(10 * H, p.stock_pct - 30 * H)
             cash_pct == Max(30 * H, p.cash_pct + 20 * H)
         IN [stock_pct |-> stock_pct, cash_pct |-> cash_pct,
             bond_pct |-> stock_pct + cash_pct - 100 * H]
    ELSE IF timeline_years < 5
    THEN LET stock_pct == Max(20 * H, p.stock_pct - 15 * H)
             cash_pct == Max(15 * H, p.cash_pct + 10 * H)
         IN [stock_pct |-> stock_pct, cash_pct |-> cash_pct,
             bond_pct |-> stock_pct + cash_pct - 100 * H]
    ELSE p

\* (mutant) cash raised without its floors
ApplyTimeline_NoCashFloor(p, timeline_years) ==
    IF timeline_years < 2
    THEN LET stock_pct == Max(10 * H, p.stock_pct - 30 * H)
             cash_pct == p.cash_pct + 20 * H
         IN [stock_pct |-> stock_pct, cash_pct |-> cash_pct,
             bond_pct |-> 100 * H - stock_pct - cash_pct]
    ELSE IF timeline_years < 5
    THEN LET stock_pct == Max(20 * H, p.stock_pct - 15 * H)
             cash_pct == p.cash_pct + 10 * H
         IN [stock_pct |-> stock_pct, cash_pct |-> cash_pct,
             bond_pct |-> 100 * H - stock_pct - cash_pct]
    ELSE p

\* lines 589-599
ApplyTimeline(p, timeline_years) ==
    IF timeline_years < 2
    THEN LET stock_pct == Max(10 * H, p.stock_pct - 30 * H)
             cash_pct == Max(30 * H, p.cash_pct + 20 * H)
         IN [stock_pct |-> stock_pct, cash_pct |-> cash_pct,
             bond_pct |-> 100 * H - stock_pct - cash_pct]
    ELSE IF timeline_years < 5
    THEN LET stock_pct == Max(20 * H, p.stock_pct - 15 * H)
             cash_pct == Max(15 * H, p.cash_pct + 10 * H)
         IN [stock_pct |-> stock_pct, cash_pct |-> cash_pct,
             bond_pct |-> 100 * H - stock_pct - cash_pct]
    ELSE p

\* lines 601-606
ApplyConservativeCap(p, risk_tolerance) ==
    IF Lower(risk_tolerance) = "conservative"
    THEN LET stock_pct == Min(p.stock_pct, 40 * H)
             remaining == 100 * H - stock_pct
         IN [stock_pct |-> stock_pct,
             bond_pct |-> (remaining * 70) \div 100,
             cash_pct |-> (remaining * 30) \div 100]
    ELSE p

\* lines 608-614.  In exact arithmetic the three percentages sum to 100 at
\* this point for every input, so the branch is not taken; it is kept with
\* a truncating division.
Normalize(p) ==
    LET total == p.stock_pct + p.bond_pct + p.cash_pct
    IN IF total # 100 * H
       THEN [stock_pct |-> (p.stock_pct * 100 * H) \div total,
             bond_pct |-> (p.bond_pct * 100 * H) \div total,
             cash_pct |-> (p.cash_pct * 100 * H) \div total]
       ELSE p

\* round(x, 1) for x >= 0 in hundredths: the nearest tenth, a tie (x.x5,
\* which is exact in binary for the multiples of 0.25 that occur) going to
\* the even tenth as Python's round does.  The result is in tenths.
Round1(x) ==
    LET q == x \div 10
        rest == x % 10
    IN IF rest < 5 THEN q
       ELSE IF rest > 5 THEN q + 1
       ELSE IF q % 2 = 0 THEN q ELSE q + 1

asset_allocation_optimizer(age, risk_tolerance, timeline_years) ==
    LET p0 == BaseProfile(risk_tolerance)
        p1 == ApplyAge(p0, age, risk_tolerance)
        p2 == ApplyTimeline(p1, timeline_years)
        p3 == ApplyConservativeCap(p2, risk_tolerance)
        p4 == Normalize(p3)
    IN [stocks |-> Round1(p4.stock_pct),
        bonds |-> Round1(p4.bond_pct),
        cash |-> Round1(p4.cash_pct),
        risk_profile |-> Capitalize(risk_tolerance),
        rebalance_trigger |-> 5]

RiskNames ==
    {"conservative", "moderate", "aggressive", "balanced",
     "Moderate", "Conservative", "AGGRESSIVE"}

AssetArgs == [age : 0..MaxAge, risk_tolerance : RiskNames,
              timeline_years : 0..MaxTimeline]

InitAsset ==
    /\ pc = "call"
    /\ op = "asset_allocation_optimizer"
    /\ args \in AssetArgs
    /\ ret = NoneVal

CallAsset ==
    /\ pc = "call"
    /\ op = "asset_allocation_optimizer"
    /\ ret' = asset_allocation_optimizer(args.age, args.risk_tolerance,
                                         args.timeline_years)
    /\ pc' = "done"
    /\ UNCHANGED <<op, args>>

NextAsset == CallAsset
SpecAsset == InitAsset /\ [][NextAsset]_vars

IsAssetCall == op = "asset_allocation_optimizer" /\ pc = "done"
ValidAssetArgs ==
    /\ args.age >= 18
    /\ args.risk_tolerance \in {"conservative", "moderate", "aggressive"}
    /\ args.timeline_years > 0

\* C6: for age >= 18, a risk tolerance of conservative, moderate or
\* aggressive and timeline_years > 0, the stocks, bonds and cash percentages
\* returned sum to 100 within 0.1 and each is non-negative (tenths).
C6_AssetMixSumsTo100 ==
    IsAssetCall /\ ValidAssetArgs =>
        /\ ret.stocks + ret.bonds + ret.cash >= 1000 - 1
        /\ ret.stocks + ret.bonds + ret.cash <= 1000 + 1
        /\ ret.stocks >= 0
        /\ ret.bonds >= 0
        /\ ret.cash >= 0

\* An age-adjusted mix on a short timeline whose bonds and cash both sit on
\* a rounding tie (x.x5) before round(x, 1).
C6_Witness ==
    /\ IsAssetCall /\ ValidAssetArgs
    /\ args.risk_tolerance = "moderate"
    /\ args.age = 30
    /\ args.timeline_years = 2
    /\ ret.stocks = 500
    /\ ret.bonds % 10 # 0
    /\ ret.cash % 10 # 0

\* C7: for risk_tolerance = conservative the returned stocks are at most 40
\* for every age >= 18 and timeline > 0, and the result is the same for all
\* ages with the same timeline.
C7_ConservativeCapped ==
    IsAssetCall /\ ValidAssetArgs /\ args.risk_tolerance = "conservative" =>
        /\ ret.stocks <= 400
        /\ ret = asset_allocation_optimizer(18, "conservative", args.timeline_years)
        /\ ret = asset_allocation_optimizer(MaxAge, "conservative", args.timeline_years)

\* A conservative investor under 30 (the age bracket whose adjustment is
\* +10) with a long timeline, who keeps the base 30% in stocks.
C7_Witness ==
    /\ IsAssetCall /\ ValidAssetArgs
    /\ args.risk_tolerance = "conservative"
    /\ args.age = 25
    /\ args.timeline_years >= 5
    /\ ret.stocks = 300
    /\ ret.bonds = 490
    /\ ret.cash = 210

---------------------------------------------------------------------------
(* IEEE-754 doubles of any magnitude: the quotient of two doubles, the     *)
(* product of a double and a whole number, and the rounding of a double    *)
(* to a whole number.                                                      *)
(*                                                                         *)
(* A positive double is [hi, lo, e] with the value                         *)
(* (hi * 2^27 + lo) * 2^e and 2^25 <= hi < 2^26, a mantissa of 53 bits in  *)
(* two limbs; zero is [0, 0, 0].  Every operation rounds its exact result  *)
(* to the nearest double, ties to even, as the hardware does.              *)

BZero == [hi |-> 0, lo |-> 0, e |-> 0]

\* a mantissa shifted left by s bits (0 < s < 27, hi < 2^(26 - s))
ShiftLeft(hi, lo, s) ==
    [hi |-> hi * 2^s + (lo \div 2^(27 - s)), lo |-> (lo % 2^(27 - s)) * 2^s]

\* a non-zero mantissa below 2^53 shifted left until it has 53 bits, by as
\* many bits at a time as leave it below 2^53
RECURSIVE BNormalize(_, _, _)
BNormalize(hi, lo, e) ==
    IF hi >= 2^25 THEN [hi |-> hi, lo |-> lo, e |-> e]
    ELSE LET s == IF hi < 2^12 THEN 13 ELSE IF hi < 2^21 THEN 4 ELSE 1
             x == ShiftLeft(hi, lo, s)
         IN BNormalize(x.hi, x.lo, e - s)

\* float(k) for a whole number k >= 0
BFromInt(k) ==
    IF k = 0 THEN BZero
    ELSE BNormalize(k \div LimbBase, k % LimbBase, 0)

\* the mantissa q, raised by one unit when up, at exponent e
BRoundUp(q, e, up) ==
    LET r == IF up THEN Norm(q.hi, q.lo + 1) ELSE q
    IN IF r.hi >= 2^26
       THEN [hi |-> r.hi \div 2, lo |-> 0, e |-> e + 1]
       ELSE [hi |-> r.hi, lo |-> r.lo, e |-> e]

\* n further bits of a quotient by long division: d.q holds the bits so
\* far, d.rem is twice the remainder of the step before (d.rem < 2 * b)
RECURSIVE DivBits(_, _, _)
DivBits(d, b, n) ==
    IF n = 0 THEN d
    ELSE IF FLt(d.rem, b)
    THEN DivBits([q |-> Norm(2 * d.q.hi, 2 * d.q.lo),
                  rem |-> Norm(2 * d.rem.hi, 2 * d.rem.lo)], b, n - 1)
    ELSE DivBits([q |-> Norm(2 * d.q.hi, 2 * d.q.lo + 1),
                  rem |-> Norm(2 * (d.rem.hi - b.hi), 2 * (d.rem.lo - b.lo))],
                 b, n - 1)

\* x / y for y # 0: the 53 bits of the quotient in six runs, then the
\* rounding on the remainder
BDiv(x, y) ==
    IF x = BZero THEN BZero
    ELSE LET small == FLt(x, y)
             rem0 == IF small THEN Norm(2 * x.hi, 2 * x.lo)
                     ELSE [hi |-> x.hi, lo |-> x.lo]
             d1 == DivBits([q |-> [hi |-> 0, lo |-> 0], rem |-> rem0], y, 8)
             d2 == DivBits(d1, y, 9)
             d3 == DivBits(d2, y, 9)
             d4 == DivBits(d3, y, 9)
             d5 == DivBits(d4, y, 9)
             d == DivBits(d5, y, 9)
             up == \/ FLt(y, d.rem)
                   \/ d.rem.hi = y.hi /\ d.rem.lo = y.lo /\ d.q.lo % 2 = 1
         IN BRoundUp(d.q, x.e - y.e - (IF small THEN 53 ELSE 52), up)

\* limb * k for a limb of 27 bits and 0 <= k <= 2^16, as a limb and the
\* carry into the next
MulLimb(limb, k) ==
    LET p0 == k * (limb % 2^14)
        p1 == k * (limb \div 2^14)
        lowsum == p0 + (p1 % 2^13) * 2^14
    IN [carry |-> (p1 \div 2^13) + (lowsum \div LimbBase),
        low |-> lowsum % LimbBase]

\* an exact value of three limbs shifted right until 53 bits are left,
\* eight bits at a time while more than that are to go, then rounded on
\* the bits shifted out (guard: the last one, sticky: any before it)
RECURSIVE RoundShift(_, _, _, _, _, _)
RoundShift(top, hi, lo, e, guard, sticky) ==
    IF top = 0 /\ hi < 2^26
    THEN BRoundUp([hi |-> hi, lo |-> lo], e,
                  guard = 1 /\ (sticky \/ lo % 2 = 1))
    ELSE LET s == IF top >= 2^8 THEN 8 ELSE 1
             out == lo % 2^s
         IN RoundShift(top \div 2^s,
                       (hi \div 2^s) + (top % 2^s) * 2^(27 - s),
                       (lo \div 2^s) + (hi % 2^s) * 2^(27 - s), e + s,
                       out \div 2^(s - 1),
                       sticky \/ guard = 1 \/ out % 2^(s - 1) # 0)

\* x * k for a whole number 0 <= k <= 2^16
BMulInt(x, k) ==
    IF x = BZero \/ k = 0 THEN BZero
    ELSE LET l == MulLimb(x.lo, k)
             h == MulLimb(x.hi, k)
             mid == h.low + l.carry
         IN RoundShift(h.carry + (mid \div LimbBase), mid % LimbBase,
                       l.low, x.e, 0, FALSE)

\* the next 27 bits of a quotient by long division, nine bits at a time,
\* for a remainder r < a < 2^22
Digits27(r, a) ==
    LET d1 == (r * 2^9) \div a
        r1 == (r * 2^9) % a
        d2 == (r1 * 2^9) \div a
        r2 == (r1 * 2^9) % a
        d3 == (r2 * 2^9) \div a
    IN [limb |-> d1 * 2^18 + d2 * 2^9 + d3, rem |-> (r2 * 2^9) % a]

\* float(k) / float(a) for whole numbers k >= 0 and 0 < a < 2^22, which
\* float() gives exactly: the whole part and 54 bits after it, or 81 bits
\* of a quotient below one, rounded with what is left as the sticky bit
BDivInt(k, a) ==
    IF k = 0 THEN BZero
    ELSE IF k >= a
    THEN LET h == Digits27(k % a, a)
             l == Digits27(h.rem, a)
         IN RoundShift(k \div a, h.limb, l.limb, -54, 0, l.rem # 0)
    ELSE LET t == Digits27(k, a)
             h == Digits27(t.rem, a)
             l == Digits27(h.rem, a)
         IN RoundShift(t.limb, h.limb, l.limb, -81, 0, l.rem # 0)

BLt(x, y) ==
    IF y = BZero THEN FALSE
    ELSE IF x = BZero THEN TRUE
    ELSE x.e < y.e \/ (x.e = y.e /\ FLt(x, y))

\* a double below 2^31 rounded to a whole number, ties to even, which is
\* the number '{:.0f}' prints: the mantissa shifted right to exponent 0,
\* eight bits at a time while that many are left, and rounded on the bits
\* shifted out
RECURSIVE ToIntShift(_, _, _, _, _)
ToIntShift(hi, lo, e, guard, sticky) ==
    IF e >= 0
    THEN hi * LimbBase + lo
             + (IF guard = 1 /\ (sticky \/ lo % 2 = 1) THEN 1 ELSE 0)
    ELSE IF hi = 0 /\ lo = 0 THEN 0
    ELSE LET s == IF e <= -8 THEN 8 ELSE 1
             out == lo % 2^s
         IN ToIntShift(hi \div 2^s, (lo \div 2^s) + (hi % 2^s) * 2^(27 - s),
                       e + s, out \div 2^(s - 1),
                       sticky \/ guard = 1 \/ out % 2^(s - 1) # 0)
BRoundToInt(x) == ToIntShift(x.hi, x.lo, x.e, 0, FALSE)

---------------------------------------------------------------------------
(* goal_conflict_resolver and its three scores, src/functions.py:989-1076  *)

MaxGoals == 3
MaxDeadline == 26
MaxReturn == 16
MaxRequired == 16

\* dict.get(key, default)
Get(goal, key, default) == IF key \in DOMAIN goal THEN goal[key] ELSE default

\* (mutant) the bucket bounds taken as strict
calculate_urgency_score_Strict(deadline_months) ==
    IF deadline_months < 3 THEN 10
    ELSE IF deadline_months < 6 THEN 8
    ELSE IF deadline_months < 12 THEN 6
    ELSE IF deadline_months < 24 THEN 4
    ELSE 2

calculate_urgency_score(deadline_months) ==
    IF deadline_months <= 3 THEN 10
    ELSE IF deadline_months <= 6 THEN 8
    ELSE IF deadline_months <= 12 THEN 6
    ELSE IF deadline_months <= 24 THEN 4
    ELSE 2

\* annualized_return >= k for a bound k > 0: a return that is negative or
\* zero (0.0 or -0.0) is below the bound
AnnualizedAtLeast(annualized_return, k) ==
    annualized_return.positive /\ ~BLt(annualized_return.magnitude, BFromInt(k))

\* annualized_return is (expected_return / timeline_months) * 12 in doubles:
\* the quotient and the product are rounded in magnitude and carry the sign
\* of the two operands; of a return that is not positive only that is held
calculate_roi_score(expected_return, timeline_months) ==
    IF timeline_months = 0 THEN 0
    ELSE LET annualized_return ==
                 IF \/ expected_return > 0 /\ timeline_months > 0
                    \/ expected_return < 0 /\ timeline_months < 0
                 THEN [positive |-> TRUE,
                       magnitude |-> BMulInt(BDivInt(Abs(expected_return),
                                                     Abs(timeline_months)), 12)]
                 ELSE [positive |-> FALSE]
         IN IF AnnualizedAtLeast(annualized_return, 15) THEN 10
            ELSE IF AnnualizedAtLeast(annualized_return, 12) THEN 8
            ELSE IF AnnualizedAtLeast(annualized_return, 8) THEN 6
            ELSE IF AnnualizedAtLeast(annualized_return, 5) THEN 4
            ELSE 2

\* sum(current_allocation.values())
RECURSIVE SumOver(_, _)
SumOver(f, keys) ==
    IF keys = {} THEN 0
    ELSE LET k == CHOOSE x \in keys : TRUE
         IN f[k] + SumOver(f, keys \ {k})
SumValues(f) == SumOver(f, DOMAIN f)

\* coverage_ratio >= num / den for a bound num / den > 0: a ratio that is
\* negative or zero is below the bound
CoverageAtLeast(coverage_ratio, num, den) ==
    coverage_ratio.positive /\ ~BLt(coverage_ratio.magnitude, BDivInt(num, den))

\* (mutant) the whole income taken as available, the allocation ignored
calculate_feasibility_score_WholeIncome(monthly_required, monthly_income, current_allocation) ==
    LET available_funds == monthly_income
    IN IF monthly_required.num = 0 THEN 5
       ELSE LET coverage_ratio ==
                    IF monthly_required.num > 0 /\ available_funds > 0
                    THEN [positive |-> TRUE,
                          magnitude |->
                              BDiv(BFromInt(available_funds),
                                   BDivInt(monthly_required.num,
                                           monthly_required.den))]
                    ELSE [positive |-> FALSE]
            IN IF CoverageAtLeast(coverage_ratio, 15, 10) THEN 10
               ELSE IF CoverageAtLeast(coverage_ratio, 10, 10) THEN 8
               ELSE IF CoverageAtLeast(coverage_ratio, 7, 10) THEN 6
               ELSE IF CoverageAtLeast(coverage_ratio, 5, 10) THEN 4
               ELSE 2

\* monthly_required is the fraction [num, den] that its double is nearest to
\* (a whole number of the currency, or the target / timeline of the
\* callers); coverage_ratio is available_funds / monthly_required if
\* monthly_required > 0 else 0, the quotient of two doubles, rounded in
\* magnitude and carrying the sign of available_funds; of a ratio that is
\* not positive only that is held
calculate_feasibility_score(monthly_required, monthly_income, current_allocation) ==
    LET available_funds == monthly_income - SumValues(current_allocation)
    IN IF monthly_required.num = 0 THEN 5
       ELSE LET coverage_ratio ==
                    IF monthly_required.num > 0 /\ available_funds > 0
                    THEN [positive |-> TRUE,
                          magnitude |->
                              BDiv(BFromInt(available_funds),
                                   BDivInt(monthly_required.num,
                                           monthly_required.den))]
                    ELSE [positive |-> FALSE]
            IN IF CoverageAtLeast(coverage_ratio, 15, 10) THEN 10
               ELSE IF CoverageAtLeast(coverage_ratio, 10, 10) THEN 8
               ELSE IF CoverageAtLeast(coverage_ratio, 7, 10) THEN 6
               ELSE IF CoverageAtLeast(coverage_ratio, 5, 10) THEN 4
               ELSE 2

\* (mutant) the return on investment left out of the total
TotalScore_NoRoi(urgency_score, roi_score, feasibility_score) ==
    FAdd(FMulInt(urgency_score, Double04), FMulInt(feasibility_score, Double03))

\* (urgency_score * 0.4) + (roi_score * 0.3) + (feasibility_score * 0.3)
TotalScore(urgency_score, roi_score, feasibility_score) ==
    FAdd(FAdd(FMulInt(urgency_score, Double04), FMulInt(roi_score, Double03)),
         FMulInt(feasibility_score, Double03))

\* lines 998-1020: the entry appended for one goal
ScoreGoal(goal, monthly_income, current_allocation) ==
    LET urgency_score == calculate_urgency_score(Get(goal, "deadline_months", 12))
        roi_score == calculate_roi_score(Get(goal, "expected_return", 0),
                                         Get(goal, "timeline_months", 12))
        feasibility_score ==
            calculate_feasibility_score(Get(goal, "monthly_required", RInt(0)),
                                        monthly_income, current_allocation)
        total_score == TotalScore(urgency_score, roi_score, feasibility_score)
    IN [name |-> Get(goal, "name", "Unnamed Goal"),
        target_amount |-> Get(goal, "target_amount", 0),
        monthly_required |-> Get(goal, "monthly_required", RInt(0)),
        deadline_months |-> Get(goal, "deadline_months", 12),
        expected_return |-> Get(goal, "expected_return", 0),
        urgency_score |-> urgency_score,
        roi_score |-> roi_score,
        feasibility_score |-> feasibility_score,
        total_score |-> total_score,
        priority |-> IF FGe(total_score, FInt(7)) THEN "High"
                     ELSE IF FGe(total_score, FInt(5)) THEN "Medium"
                     ELSE "Low"]

\* (mutant) an entry placed before the entries of equal score
RECURSIVE InsertByScore_Unstable(_, _)
InsertByScore_Unstable(sorted, e) ==
    IF sorted = <<>> THEN <<e>>
    ELSE IF FGe(e.total_score, Head(sorted).total_score)
         THEN <<e>> \o sorted
         ELSE <<Head(sorted)>> \o InsertByScore_Unstable(Tail(sorted), e)

\* e placed behind every entry of sorted whose score is not less than its own
RECURSIVE InsertByScore(_, _)
InsertByScore(sorted, e) ==
    IF sorted = <<>> THEN <<e>>
    ELSE IF FLt(Head(sorted).total_score, e.total_score)
         THEN <<e>> \o sorted
         ELSE <<Head(sorted)>> \o InsertByScore(Tail(sorted), e)

\* scored_goals.sort(key=lambda x: x['total_score'], reverse=True): a stable
\* sort, computed by inserting the entries in list order
RECURSIVE SortFrom(_, _, _)
SortFrom(i, sorted, scored_goals) ==
    IF i > Len(scored_goals) THEN sorted
    ELSE SortFrom(i + 1, InsertByScore(sorted, scored_goals[i]), scored_goals)
SortByTotalScore(scored_goals) == SortFrom(1, <<>>, scored_goals)

\* F of the value of v: the set of one element holds v computed, where an
\* argument is computed anew wherever F uses it
Once(v, F(_)) == CHOOSE r \in {F(x) : x \in {v}} : TRUE

goal_conflict_resolver(goals, monthly_income, current_allocation) ==
    IF Len(goals) < 2 THEN NoneVal
    ELSE Once([i \in 1..Len(goals) |->
                  ScoreGoal(goals[i], monthly_income, current_allocation)],
              SortByTotalScore)

\* the caller's goal list once the function has returned: the scored
\* entries are new dicts in a new list (lines 996, 1010), which is the list
\* that line 1024 sorts in place
ResolverCallerGoals(goals, monthly_income, current_allocation) ==
    LET caller == CallerObject(goals)
        Sorted(scored_goals) ==
            [scored_goals EXCEPT !.items = SortByTotalScore(scored_goals.items)]
        sorted ==
            Once(NewObject([i \in 1..Len(goals) |->
                               ScoreGoal(goals[i], monthly_income,
                                         current_allocation)]), Sorted)
    IN IF Len(goals) < 2 THEN caller.items
       ELSE IF sorted.id = caller.id THEN sorted.items
       ELSE caller.items

\* Goal dicts with the keys goal_conflict_resolver reads (lines 1000-1005),
\* each key an input of its own: the deadline is not tied to the timeline
\* and monthly_required is not derived from the target, as they are in the
\* goals of CallerPool below.  Lists of up to MaxGoals goals are drawn of
\* them.
GoalPool ==
    [target_amount : {1000}, deadline_months : {3, 30}, timeline_months : {12},
     expected_return : {0, 6, 15}, monthly_required : {RInt(12), RInt(20)}]
BaseGoal ==
    [target_amount |-> 1000, deadline_months |-> 12, timeline_months |-> 12,
     expected_return |-> 0, monthly_required |-> RInt(12)]
\* Goals that differ from BaseGoal in one score's inputs, over every value
\* up to the bounds (returns of either sign over a negative timeline, which
\* only a direct call passes), and a goal with only a target (the .get
\* defaults).
SweepPool ==
    {[BaseGoal EXCEPT !.deadline_months = d] : d \in 0..MaxDeadline}
    \cup {[BaseGoal EXCEPT !.expected_return = e, !.timeline_months = t] :
             e \in 0..MaxReturn, t \in {0, 6, 12, 24}}
    \cup {[BaseGoal EXCEPT !.expected_return = e, !.timeline_months = -12] :
             e \in (-MaxReturn)..MaxReturn}
    \cup {[BaseGoal EXCEPT !.monthly_required = RInt(m)] : m \in 0..MaxRequired}
    \cup {[target_amount |-> 1000]}

GoalNames == <<"g1", "g2", "g3", "g4", "g5">>
\* the goal at position i of a list is named GoalNames[i]
Named(list) == [i \in 1..Len(list) |-> [name |-> GoalNames[i]] @@ list[i]]

\* The goal the endpoint builds of a request with expected_return = 0
\* (src/api.py:335-352): deadline_months is timeline_months and
\* monthly_required is target_amount / timeline_months, the double nearest
\* to the fraction held here, which is not a whole number unless the
\* timeline divides the target; the division raises for a timeline of 0,
\* which the request model rejects.  (With a return above 0 the endpoint
\* takes monthly_required from the annuity formula, of which the goals of
\* GoalPool carry a value as given.)
CallerGoal(target_amount, timeline_months) ==
    IF timeline_months = 0 THEN ZeroDivisionError
    ELSE [target_amount |-> target_amount,
          timeline_months |-> timeline_months,
          deadline_months |-> timeline_months,
          expected_return |-> 0,
          monthly_required |-> Rat(target_amount, timeline_months)]

\* a target of 24 over timelines that divide it and timelines that do not
\* (4.8 a month over 5 months, 0.5 over 48), and a target of 14 over 3
\* months, which 7 available cover 1.5 times
CallerPool ==
    {CallerGoal(24, t) : t \in {1, 2, 3, 4, 5, 6, 8, 12, 24, 48}}
    \cup {CallerGoal(14, 3)}

GoalLists ==
    {Named(l) : l \in UNION {[1..n -> GoalPool] : n \in 0..MaxGoals}}
    \cup {Named(<<w, g>>) : w \in SweepPool, g \in GoalPool}
    \cup {Named(l) : l \in UNION {[1..n -> CallerPool] : n \in 0..MaxGoals}}

\* monthly_income against an allocation of 100: 7 left over, nothing left
\* over, 7 overspent
ResolverArgs ==
    [goals : GoalLists, monthly_income : {93, 100, 107},
     current_allocation :
         {[savings |-> 20, investments |-> 20, personal |-> 45, misc |-> 15]}]

InitResolver ==
    /\ pc = "call"
    /\ op = "goal_conflict_resolver"
    /\ args \in ResolverArgs
    /\ ret = NoneVal

CallResolver ==
    /\ pc = "call"
    /\ op = "goal_conflict_resolver"
    /\ ret' = goal_conflict_resolver(args.goals, args.monthly_income,
                                     args.current_allocation)
    /\ args' = [args EXCEPT !.goals =
                    ResolverCallerGoals(args.goals, args.monthly_income,
                                        args.current_allocation)]
    /\ pc' = "done"
    /\ UNCHANGED op

NextResolver == CallResolver
SpecResolver == InitResolver /\ [][NextResolver]_vars

IsResolverCall == op = "goal_conflict_resolver" /\ pc = "done"
Ranked == IsResolverCall /\ Len(args.goals) >= 2

\* the position in the input list of the goal with this name
Pos(name) == CHOOSE i \in 1..Len(GoalNames) : GoalNames[i] = name
SameScore(x, y) == ~FLt(x, y) /\ ~FLt(y, x)

\* C8: for every list of at least 2 goals, goal_conflict_resolver returns
\* exactly one scored entry per input goal, ordered so that total_score is
\* non-increasing, with entries of equal total_score in input order.
C8_StableDescendingSort ==
    Ranked =>
        /\ Len(ret) = Len(args.goals)
        /\ \A k \in 1..Len(args.goals) :
               Cardinality({i \in 1..Len(ret) : ret[i].name = args.goals[k].name}) = 1
        /\ \A i, j \in 1..Len(ret) :
               i < j =>
                   /\ ~FLt(ret[i].total_score, ret[j].total_score)
                   /\ SameScore(ret[i].total_score, ret[j].total_score)
                          => Pos(ret[i].name) < Pos(ret[j].name)

\* The third goal of three ranked first, ahead of two goals of equal
\* total_score that keep their input order.
C8_Witness ==
    /\ Ranked
    /\ Len(ret) = 3
    /\ ret[1].name = "g3"
    /\ ret[2].name = "g1"
    /\ ret[3].name = "g2"
    /\ FLt(ret[2].total_score, ret[1].total_score)
    /\ SameScore(ret[2].total_score, ret[3].total_score)

\* The documented bucket tables: 2 points for every bound the goal meets,
\* on top of the lowest score 2.
UrgencyTable(deadline_months) ==
    2 + 2 * Cardinality({b \in {3, 6, 12, 24} : deadline_months <= b})
\* expected_return / timeline_months * 12 >= b, cleared of the division
RoiTable(expected_return, timeline_months) ==
    IF timeline_months = 0 THEN 0
    ELSE 2 + 2 * Cardinality({b \in {5, 8, 12, 15} :
                                 IF timeline_months > 0
                                 THEN expected_return * 12 >= b * timeline_months
                                 ELSE expected_return * 12 <= b * timeline_months})
\* available_funds / monthly_required >= b / 10 for the fraction
\* monthly_required, cleared of the divisions
FeasibilityTable(monthly_required, available_funds) ==
    IF monthly_required.num = 0 THEN 5
    ELSE 2 + 2 * Cardinality({b \in {5, 7, 10, 15} :
                                 /\ monthly_required.num > 0
                                 /\ 10 * available_funds * monthly_required.den
                                        >= b * monthly_required.num})

\* 2^54 / 10 rounded down, in limbs: one tenth in the unit of the doubles
TenthUnits == [hi |-> 13421772, lo |-> 107374182]
TimesSmall(x, k) == Norm(k * x.hi, k * x.lo)
\* tenths / 10 as a double would hold it, rounded down to the unit
TenthsExact(tenths) ==
    LET whole == TimesSmall(TimesSmall(TenthUnits, 10), tenths \div 10)
        part == TimesSmall(TenthUnits, tenths % 10)
    IN Norm(whole.hi + part.hi, whole.lo + part.lo)
Shifted(x, units) == Norm(x.hi, x.lo + units)
\* |x - tenths / 10| < 2^-46, far below the 0.1 between two totals
NearTenths(x, tenths) ==
    /\ FGe(x, Shifted(TenthsExact(tenths), -(2^7)))
    /\ FGe(Shifted(TenthsExact(tenths), 2^8), x)

\* C9: every scored goal has urgency, roi and feasibility scores in [0,10]
\* equal to the documented bucket tables, total_score = 0.4 * urgency +
\* 0.3 * roi + 0.3 * feasibility (as a double), and priority High iff the
\* total is >= 7, Medium iff it is in [5, 7), Low otherwise.
C9_ScoresFollowTables ==
    Ranked =>
        \A i \in 1..Len(ret) :
            LET e == ret[i]
                g == args.goals[Pos(e.name)]
                available == args.monthly_income
                                 - Total(args.current_allocation)
                tenths == 4 * e.urgency_score + 3 * e.roi_score
                              + 3 * e.feasibility_score
            IN /\ e.urgency_score = UrgencyTable(Get(g, "deadline_months", 12))
               /\ e.roi_score = RoiTable(Get(g, "expected_return", 0),
                                         Get(g, "timeline_months", 12))
               /\ e.feasibility_score
                      = FeasibilityTable(Get(g, "monthly_required", RInt(0)), available)
               /\ e.urgency_score \in 0..10
               /\ e.roi_score \in 0..10
               /\ e.feasibility_score \in 0..10
               /\ NearTenths(e.total_score, tenths)
               /\ (e.priority = "High") = (tenths >= 70)
               /\ (e.priority = "Medium") = (tenths >= 50 /\ tenths < 70)
               /\ (e.priority = "Low") = (tenths < 50)

\* A ranking that holds a goal exactly on a bound of each table (deadline
\* of 3 months, annualized return of 15, coverage of 0.7) with priority
\* High beside a goal of priority Low.
C9_Witness ==
    /\ Ranked
    /\ \E i, j \in 1..Len(ret) :
           /\ ret[i].deadline_months = 3
           /\ ret[i].urgency_score = 10
           /\ ret[i].expected_return = 15
           /\ ret[i].roi_score = 10
           /\ ret[i].priority = "High"
           /\ ret[j].monthly_required = RInt(10)
           /\ 10 * (args.monthly_income - Total(args.current_allocation))
                  = 7 * ret[j].monthly_required.num
           /\ ret[j].feasibility_score = 6
           /\ ret[j].priority = "Low"

\* entry a is at least as urgent and as profitable as entry b, strictly in
\* one of the two, and as feasible
Dominates(a, b) ==
    /\ a.urgency_score >= b.urgency_score
    /\ a.roi_score >= b.roi_score
    /\ a.urgency_score > b.urgency_score \/ a.roi_score > b.roi_score
    /\ a.feasibility_score = b.feasibility_score

\* C10: a goal whose urgency and roi scores are both at least another's,
\* one of them strictly greater, with equal feasibility scores, is ranked
\* before the other whatever their order in the input.
C10_DominantGoalRanksFirst ==
    Ranked =>
        \A i, j \in 1..Len(ret) :
            Dominates(ret[i], ret[j]) => i < j

\* The 15%-return goal given after the 0%-return goal of the same deadline
\* and feasibility, and ranked before it.
C10_Witness ==
    /\ Ranked
    /\ \E i, j \in 1..Len(ret) :
           /\ i < j
           /\ Dominates(ret[i], ret[j])
           /\ ret[i].urgency_score = ret[j].urgency_score
           /\ ret[i].expected_return = 15
           /\ ret[j].expected_return = 0
           /\ Pos(ret[i].name) > Pos(ret[j].name)

---------------------------------------------------------------------------
(* dynamic_reallocation_suggestions, src/functions.py:624-775              *)
(*                                                                         *)
(* An allocation is a dict: its keys in insertion order (a sequence) and   *)
(* its amounts (a function).  The text of a suggestion's 'action' is kept  *)
(* as the values the f-string interpolates: the amount, the source list    *)
(* and the usage percentage.                                               *)

MaxMonthsTracked == 2
AllocUnit == 20
SpentLevels == {0, 10, 14, 16, 17, 20, 25, 40}

priority_order == <<"savings", "investments", "personal", "misc">>

Reverse(s) == [i \in 1..Len(s) |-> s[Len(s) + 1 - i]]

\* the elements of the sequence s that are in the set keep, in order
RECURSIVE Filter(_, _)
Filter(s, keep) ==
    IF s = <<>> THEN <<>>
    ELSE IF Head(s) \in keep THEN <<Head(s)>> \o Filter(Tail(s), keep)
    ELSE Filter(Tail(s), keep)

Range(s) == {s[i] : i \in 1..Len(s)}

\* difference = allocated - spent
Difference(allocation, actual_spending, category) ==
    Get(allocation, category, 0) - Get(actual_spending, category, 0)

\* usage_pct: (spent / allocated * 100) if allocated > 0 else 0, as the
\* double the two float operations give (line 649)
usage_pct(allocation, actual_spending, category) ==
    LET allocated == Get(allocation, category, 0)
        spent == Get(actual_spending, category, 0)
    IN IF allocated > 0
       THEN BMulInt(BDivInt(spent, allocated), 100)
       ELSE BZero

\* data['usage_pct'] < pct (lines 673 and 765)
UsageBelow(allocation, actual_spending, category, pct) ==
    BLt(usage_pct(allocation, actual_spending, category), BFromInt(pct))

\* usage_pct as '{:.0f}' prints it: the integer nearest to the double, ties
\* to even
UsageShown(allocation, actual_spending, category) ==
    BRoundToInt(usage_pct(allocation, actual_spending, category))

\* the sum of the positive differences (lines 652-653)
RECURSIVE TotalSurplus(_, _, _)
TotalSurplus(keys, allocation, actual_spending) ==
    IF keys = <<>> THEN 0
    ELSE LET d == Difference(allocation, actual_spending, Head(keys))
         IN (IF d > 0 THEN d ELSE 0)
                + TotalSurplus(Tail(keys), allocation, actual_spending)

\* the sum of the overspends (lines 654-655)
RECURSIVE TotalDeficit(_, _, _)
TotalDeficit(keys, allocation, actual_spending) ==
    IF keys = <<>> THEN 0
    ELSE LET d == Difference(allocation, actual_spending, Head(keys))
         IN (IF d < 0 THEN -d ELSE 0)
                + TotalDeficit(Tail(keys), allocation, actual_spending)

\* the categories of deficit_categories, in key order (lines 661-669)
DeficitCategories(keys, allocation, actual_spending) ==
    Filter(keys, {c \in Range(keys) :
                    Difference(allocation, actual_spending, c) < 0})

\* (mutant) every underspent category is a surplus candidate
IsSurplusCandidate_AnyUsage(allocation, actual_spending, category) ==
    Difference(allocation, actual_spending, category) > 0

\* data['difference'] > 0 and data['usage_pct'] < 85 (line 674)
IsSurplusCandidate(allocation, actual_spending, category) ==
    /\ Difference(allocation, actual_spending, category) > 0
    /\ UsageBelow(allocation, actual_spending, category, 85)

\* the categories of surplus_categories, in key order (lines 672-681)
SurplusCategories(keys, allocation, actual_spending) ==
    Filter(keys, {c \in Range(keys) :
                    IsSurplusCandidate(allocation, actual_spending, c)})

Suggestion(type, category, allocation, actual_spending, action, priority) ==
    [type |-> type,
     category |-> category,
     allocated |-> Get(allocation, category, 0),
     spent |-> Get(actual_spending, category, 0),
     action |-> action,
     priority |-> priority]

\* list.index raises ValueError for a value that is not in the list
ValueError == [raises |-> "ValueError"]

\* sorted(surplus_categories, key = priority_order.index, reverse = True):
\* the key is taken of every element, so one category outside
\* priority_order raises
SortedDonors(surplus_categories) ==
    IF Range(surplus_categories) \subseteq Range(priority_order)
    THEN ListVal(Filter(Reverse(priority_order), Range(surplus_categories)))
    ELSE ValueError

\* the loop of lines 699-705 over the donors left, lowest priority first
RECURSIVE Sources(_, _, _, _, _)
Sources(donors, allocation, actual_spending, amount_to_allocate, temp_surplus) ==
    IF donors = <<>> \/ temp_surplus <= 0 THEN <<>>
    ELSE LET surplus == Difference(allocation, actual_spending, Head(donors))
             contribution == Min(surplus, amount_to_allocate)
         IN IF contribution > 0
            THEN <<[amount |-> contribution, category |-> Head(donors)]>>
                     \o Sources(Tail(donors), allocation, actual_spending,
                                amount_to_allocate, temp_surplus - contribution)
            ELSE Sources(Tail(donors), allocation, actual_spending,
                         amount_to_allocate, temp_surplus)

\* (mutant) the loop goes on when the surplus is used up
CoverageStops_Never(remaining_surplus) == FALSE

\* if remaining_surplus <= 0: break (lines 689-690)
CoverageStops(remaining_surplus) == remaining_surplus <= 0

\* the loop of lines 688-716 over the deficits left; gives the suggestions
\* appended and the remaining_surplus the loop ends with, or the ValueError
\* of the sort
RECURSIVE CoverDeficits(_, _, _, _, _)
CoverDeficits(deficits, surplus_categories, allocation, actual_spending, remaining_surplus) ==
    IF deficits = <<>> \/ CoverageStops(remaining_surplus)
    THEN [suggestions |-> <<>>, remaining_surplus |-> remaining_surplus]
    ELSE LET amount_needed ==
                 -Difference(allocation, actual_spending, Head(deficits))
             amount_to_allocate == Min(amount_needed, remaining_surplus)
             donors == SortedDonors(surplus_categories)
             sources == Sources(donors.list, allocation, actual_spending,
                                amount_to_allocate, remaining_surplus)
             rest == CoverDeficits(Tail(deficits), surplus_categories,
                                   allocation, actual_spending,
                                   remaining_surplus - amount_to_allocate)
         IN IF donors = ValueError THEN ValueError
            ELSE [suggestions |->
                      <<Suggestion("deficit_coverage", Head(deficits),
                                   allocation, actual_spending,
                                   [amount |-> amount_to_allocate,
                                    sources |-> sources], "High")>>
                          \o rest.suggestions,
                  remaining_surplus |-> rest.remaining_surplus]

\* (mutant) what is left goes to the first category of priority_order,
\* surplus source or not
BoostRemaining_AnyCategory(surplus_categories, allocation, actual_spending, remaining_surplus) ==
    IF remaining_surplus > 0
    THEN <<Suggestion("surplus_reallocation", Head(priority_order), allocation,
                      actual_spending,
                      [amount |-> remaining_surplus], "Medium")>>
    ELSE <<>>

\* lines 719-732: what is left goes to the first category of priority_order
\* that had no surplus
BoostRemaining(surplus_categories, allocation, actual_spending, remaining_surplus) ==
    LET open == Filter(priority_order,
                       Range(priority_order) \ Range(surplus_categories))
    IN IF remaining_surplus > 0 /\ open # <<>>
       THEN <<Suggestion("surplus_reallocation", Head(open), allocation,
                         actual_spending,
                         [amount |-> remaining_surplus], "Medium")>>
       ELSE <<>>

\* (mutant) the surplus goes to investments
SurplusTargets_InvestmentsFirst == <<"investments", "savings">>

\* ['savings', 'investments'] (line 737)
SurplusTargets == <<"savings", "investments">>

\* lines 737-749: one suggestion, for the first target
RedirectSurplus(surplus_categories, allocation, actual_spending, total_surplus) ==
    IF total_surplus > 0
    THEN <<Suggestion("surplus_reallocation", Head(SurplusTargets),
                      allocation, actual_spending,
                      [amount |-> total_surplus,
                       sources |->
                           [i \in 1..Len(surplus_categories) |->
                               [amount |-> Difference(allocation,
                                               actual_spending,
                                               surplus_categories[i]),
                                category |-> surplus_categories[i]]]],
                      "High")>>
    ELSE <<>>

\* (mutant) only the first overspent category is warned about
WarnedDeficits_FirstOnly(deficit_categories) == SubSeq(deficit_categories, 1, 1)

\* for deficit in deficit_categories (line 753)
WarnedDeficits(deficit_categories) == deficit_categories

\* lines 753-761
DeficitWarnings(deficit_categories, allocation, actual_spending) ==
    LET warned == WarnedDeficits(deficit_categories)
    IN [i \in 1..Len(warned) |->
           Suggestion("deficit_warning", warned[i], allocation,
                      actual_spending,
                      [amount |-> -Difference(allocation, actual_spending,
                                              warned[i])],
                      "High")]

\* lines 764-773
EfficiencyTips(surplus_categories, allocation, actual_spending) ==
    LET low == Filter(surplus_categories,
                      {c \in Range(surplus_categories) :
                          UsageBelow(allocation, actual_spending, c, 70)})
    IN [i \in 1..Len(low) |->
           Suggestion("efficiency_tip", low[i], allocation, actual_spending,
                      [usage_pct |-> UsageShown(allocation, actual_spending,
                                                low[i]),
                       amount |-> Difference(allocation, actual_spending,
                                             low[i])],
                      "Low")]

dynamic_reallocation_suggestions(keys, allocation, actual_spending, months_tracked) ==
    IF months_tracked < 2 THEN NoneVal
    ELSE
    LET total_surplus == TotalSurplus(keys, allocation, actual_spending)
        total_deficit == TotalDeficit(keys, allocation, actual_spending)
        deficit_categories ==
            DeficitCategories(keys, allocation, actual_spending)
        surplus_categories ==
            SurplusCategories(keys, allocation, actual_spending)
        covered == CoverDeficits(deficit_categories, surplus_categories,
                                 allocation, actual_spending, total_surplus)
        plan ==
            IF surplus_categories # <<>> /\ deficit_categories # <<>>
            THEN covered.suggestions
                     \o BoostRemaining(surplus_categories, allocation,
                                       actual_spending,
                                       covered.remaining_surplus)
            ELSE IF surplus_categories # <<>>
            THEN RedirectSurplus(surplus_categories, allocation,
                                 actual_spending, total_surplus)
            ELSE IF deficit_categories # <<>>
            THEN DeficitWarnings(deficit_categories, allocation,
                                 actual_spending)
            ELSE <<>>
        suggestions ==
            IF total_surplus > 0 \/ total_deficit > 0
            THEN plan \o EfficiencyTips(surplus_categories, allocation,
                                        actual_spending)
            ELSE <<>>
        raises ==
            /\ surplus_categories # <<>> /\ deficit_categories # <<>>
            /\ covered = ValueError
    IN IF raises THEN ValueError
       ELSE IF suggestions # <<>> THEN ListVal(suggestions) ELSE NoneVal

\* what one category was given and what it spent; of the last, 23 of 40,
\* the exact usage is 57.5 and the double is just under it
CategoryStates ==
    {<<AllocUnit, s>> : s \in SpentLevels} \cup {<<0, 0>>, <<0, 10>>, <<40, 23>>}

KeyOrders == {priority_order, Reverse(priority_order)}

ReallocArgs ==
    {[keys |-> k,
      allocation |-> [c \in Categories |-> st[c][1]],
      actual_spending |-> [c \in Categories |-> st[c][2]],
      months_tracked |-> m] :
        k \in KeyOrders, st \in [Categories -> CategoryStates],
        m \in 1..MaxMonthsTracked}

InitRealloc ==
    /\ pc = "call"
    /\ op = "dynamic_reallocation_suggestions"
    /\ args \in ReallocArgs
    /\ ret = NoneVal

CallRealloc ==
    /\ pc = "call"
    /\ op = "dynamic_reallocation_suggestions"
    /\ ret' = dynamic_reallocation_suggestions(args.keys, args.allocation,
                  args.actual_spending, args.months_tracked)
    /\ pc' = "done"
    /\ UNCHANGED <<op, args>>

NextRealloc == CallRealloc
SpecRealloc == InitRealloc /\ [][NextRealloc]_vars

IsReallocCall == op = "dynamic_reallocation_suggestions" /\ pc = "done"

\* The claims about dynamic_reallocation_suggestions speak of the input in
\* their own words: a category is in deficit when it spent more than it was
\* given, and is a surplus candidate when it was given more than it spent
\* and used less than 85% of it.
ReallocRan == IsReallocCall /\ args.months_tracked >= 2
InDeficit(c) == args.actual_spending[c] > args.allocation[c]
Underspent(c) == args.allocation[c] > args.actual_spending[c]
IsCandidate(c) ==
    /\ Underspent(c)
    /\ 100 * args.actual_spending[c] < 85 * args.allocation[c]
HasDeficit == \E c \in Categories : InDeficit(c)
HasCandidate == \E c \in Categories : IsCandidate(c)
Suggestions == IF ret = NoneVal THEN <<>> ELSE ret.list
OfType(type) == {i \in 1..Len(Suggestions) : Suggestions[i].type = type}
OfTypeFor(type, c) == {i \in OfType(type) : Suggestions[i].category = c}
Surplus(c) == IF Underspent(c) THEN args.allocation[c] - args.actual_spending[c] ELSE 0
Overspend(c) == IF InDeficit(c) THEN args.actual_spending[c] - args.allocation[c] ELSE 0
KeyPos(c) == CHOOSE i \in 1..Len(args.keys) : args.keys[i] = c

\* C11: with months_tracked >= 2, dynamic_reallocation_suggestions returns
\* None exactly when no category is in deficit and no category is a surplus
\* candidate; otherwise it returns a list with at least one suggestion.
C11_NoneExactlyWhenNothingToSuggest ==
    ReallocRan =>
        /\ (ret = NoneVal) <=> (~HasDeficit /\ ~HasCandidate)
        /\ ret # NoneVal => Len(ret.list) >= 1

\* C11 happens: a category is underspent at 85% usage or more, nothing else
\* differs, and None is returned
C11_Witness ==
    /\ ReallocRan
    /\ \E c \in Categories : Underspent(c)
    /\ ret = NoneVal

\* C12 as claimed: with a surplus candidate and a deficit, every category
\* in deficit has exactly one deficit_coverage suggestion.
C12_OneCoveragePerDeficit ==
    (ReallocRan /\ HasCandidate /\ HasDeficit) =>
        \A c \in Categories :
            InDeficit(c) => Cardinality(OfTypeFor("deficit_coverage", c)) = 1

\* the overspends of the categories in deficit that come before c in the
\* key order of the allocation
OverspendBefore(c) ==
    SumOver([d \in Categories |->
                IF KeyPos(d) < KeyPos(c) THEN Overspend(d) ELSE 0], Categories)
AllSurplus == SumOver([d \in Categories |-> Surplus(d)], Categories)

\* C12, amended: with a surplus candidate and a deficit, a category has one
\* deficit_coverage suggestion when it is in deficit and the overspends of
\* the deficits before it (in key order) total less than the surplus of all
\* underspent categories, and has none otherwise; the first deficit always
\* has one.
C12_CoverageUntilSurplusUsedUp ==
    (ReallocRan /\ HasCandidate /\ HasDeficit) =>
        /\ \A c \in Categories :
               Cardinality(OfTypeFor("deficit_coverage", c)) =
                   IF InDeficit(c) /\ OverspendBefore(c) < AllSurplus
                   THEN 1 ELSE 0
        /\ OfType("deficit_coverage") # {}

\* C12 happens: one deficit is covered and a later one is left out
C12_Witness ==
    /\ ReallocRan
    /\ HasCandidate
    /\ \E c, d \in Categories :
           /\ InDeficit(c) /\ InDeficit(d)
           /\ OfTypeFor("deficit_coverage", c) # {}
           /\ OfTypeFor("deficit_coverage", d) = {}

\* C13: with a surplus candidate and no deficit, the output has exactly one
\* surplus_reallocation suggestion; its target is savings, the first of
\* savings and investments; it offers the surplus of all underspent
\* categories and lists every surplus candidate, with its surplus, as a
\* source.
C13_SurplusGoesToSavings ==
    (ReallocRan /\ HasCandidate /\ ~HasDeficit) =>
        /\ Cardinality(OfType("surplus_reallocation")) = 1
        /\ \A i \in OfType("surplus_reallocation") :
               LET s == Suggestions[i]
               IN /\ s.category = "savings"
                  /\ s.action.amount = AllSurplus
                  /\ Len(s.action.sources) =
                         Cardinality({c \in Categories : IsCandidate(c)})
                  /\ \A c \in Categories :
                         IsCandidate(c) <=>
                             \E k \in 1..Len(s.action.sources) :
                                 s.action.sources[k] =
                                     [amount |-> Surplus(c), category |-> c]

\* C13 happens: two candidates, savings among them, and one more underspent
\* category that is no candidate
C13_Witness ==
    /\ ReallocRan
    /\ ~HasDeficit
    /\ IsCandidate("savings")
    /\ IsCandidate("misc")
    /\ Underspent("personal") /\ ~IsCandidate("personal")
    /\ OfType("surplus_reallocation") # {}

\* C14: deficit_warning suggestions appear exactly when a category is in
\* deficit and none is a surplus candidate; then every category in deficit
\* has exactly one, the others none, and no deficit_coverage or
\* surplus_reallocation suggestion is in the output.
C14_WarningsOnlyWithoutCandidates ==
    ReallocRan =>
        /\ (OfType("deficit_warning") # {}) <=> (HasDeficit /\ ~HasCandidate)
        /\ (HasDeficit /\ ~HasCandidate) =>
               /\ \A c \in Categories :
                      Cardinality(OfTypeFor("deficit_warning", c)) =
                          IF InDeficit(c) THEN 1 ELSE 0
               /\ OfType("deficit_coverage") = {}
               /\ OfType("surplus_reallocation") = {}

\* C14 happens: two categories in deficit, a third underspent but no
\* candidate, and warnings are returned
C14_Witness ==
    /\ ReallocRan
    /\ ~HasCandidate
    /\ \E c, d \in Categories : c # d /\ InDeficit(c) /\ InDeficit(d)
    /\ \E c \in Categories : Underspent(c)
    /\ Cardinality(OfType("deficit_warning")) >= 2

---------------------------------------------------------------------------
(* analyze_allocation_health, src/functions.py:270-302, and                *)
(* generate_ai_analysis, src/functions.py:206-268                          *)
(*                                                                         *)
(* A ratio is a percentage kept as an exact rational.  A message built by  *)
(* an f-string is kept as its fixed text and the values it interpolates.   *)

MaxSavingsRatio == 21
MaxInvestmentRatio == 16
MaxDiscretionaryRatio == 61

RLt(x, y) == x.num * y.den < y.num * x.den
RGe(x, y) == ~RLt(x, y)
RLe(x, y) == ~RLt(y, x)
RGt(x, y) == RLt(y, x)

\* lines 274-279
SavingsPoints(savings_ratio) ==
    IF RGe(savings_ratio, RInt(20)) THEN 35
    ELSE IF RGe(savings_ratio, RInt(15)) THEN 25
    ELSE IF RGe(savings_ratio, RInt(10)) THEN 15
    ELSE 0

\* lines 281-286
InvestmentPoints(investment_ratio) ==
    IF RGe(investment_ratio, RInt(15)) THEN 35
    ELSE IF RGe(investment_ratio, RInt(10)) THEN 25
    ELSE IF RGe(investment_ratio, RInt(5)) THEN 15
    ELSE 0

\* (mutant) the bounds of discretionary spending taken as strict
DiscretionaryPoints_Strict(discretionary_ratio) ==
    IF RLt(discretionary_ratio, RInt(40)) THEN 30
    ELSE IF RLt(discretionary_ratio, RInt(50)) THEN 20
    ELSE IF RLt(discretionary_ratio, RInt(60)) THEN 10
    ELSE 0

\* lines 288-293
DiscretionaryPoints(discretionary_ratio) ==
    IF RLe(discretionary_ratio, RInt(40)) THEN 30
    ELSE IF RLe(discretionary_ratio, RInt(50)) THEN 20
    ELSE IF RLe(discretionary_ratio, RInt(60)) THEN 10
    ELSE 0

\* score, as lines 272-293 leave it
HealthScore(savings_ratio, investment_ratio, discretionary_ratio) ==
    SavingsPoints(savings_ratio) + InvestmentPoints(investment_ratio)
        + DiscretionaryPoints(discretionary_ratio)

\* lines 295-302
HealthLabel(score) ==
    IF score >= 85 THEN "Excellent"
    ELSE IF score >= 70 THEN "Good"
    ELSE IF score >= 50 THEN "Fair"
    ELSE "Needs Improvement"

analyze_allocation_health(savings_ratio, investment_ratio, discretionary_ratio) ==
    HealthLabel(HealthScore(savings_ratio, investment_ratio,
                            discretionary_ratio))

HealthArgs ==
    [savings_ratio : {RInt(n) : n \in 0..MaxSavingsRatio},
     investment_ratio : {RInt(n) : n \in 0..MaxInvestmentRatio},
     discretionary_ratio : {RInt(n) : n \in 0..MaxDiscretionaryRatio}]

InitHealth ==
    /\ pc = "call"
    /\ op = "analyze_allocation_health"
    /\ args \in HealthArgs
    /\ ret = NoneVal

CallHealth ==
    /\ pc = "call"
    /\ op = "analyze_allocation_health"
    /\ ret' = analyze_allocation_health(args.savings_ratio,
                  args.investment_ratio, args.discretionary_ratio)
    /\ pc' = "done"
    /\ UNCHANGED <<op, args>>

NextHealth == CallHealth
SpecHealth == InitHealth /\ [][NextHealth]_vars

IsHealthCall == op = "analyze_allocation_health" /\ pc = "done"

\* the documented table, on whole percentages
SavingsBand(pct) ==
    CHOOSE p \in {0, 15, 25, 35} :
        /\ p = 35 <=> pct >= 20
        /\ p = 25 <=> pct \in 15..19
        /\ p = 15 <=> pct \in 10..14
InvestmentBand(pct) ==
    CHOOSE p \in {0, 15, 25, 35} :
        /\ p = 35 <=> pct >= 15
        /\ p = 25 <=> pct \in 10..14
        /\ p = 15 <=> pct \in 5..9
DiscretionaryBand(pct) ==
    CHOOSE p \in {0, 10, 20, 30} :
        /\ p = 30 <=> pct <= 40
        /\ p = 20 <=> pct \in 41..50
        /\ p = 10 <=> pct \in 51..60
TableScore ==
    SavingsBand(args.savings_ratio.num)
        + InvestmentBand(args.investment_ratio.num)
        + DiscretionaryBand(args.discretionary_ratio.num)

\* C15: analyze_allocation_health returns the label of the documented
\* table: Excellent iff the table's score is at least 85, Good iff it is
\* in 70..84, Fair iff in 50..69, Needs Improvement otherwise; the score
\* the code computes is the table's and lies in 0..100.
C15_LabelFollowsTable ==
    IsHealthCall =>
        /\ (ret = "Excellent") <=> (TableScore >= 85)
        /\ (ret = "Good") <=> (TableScore >= 70 /\ TableScore < 85)
        /\ (ret = "Fair") <=> (TableScore >= 50 /\ TableScore < 70)
        /\ (ret = "Needs Improvement") <=> (TableScore < 50)
        /\ HealthScore(args.savings_ratio, args.investment_ratio,
                       args.discretionary_ratio) = TableScore
        /\ TableScore \in 0..100

\* C15 happens: discretionary spending of exactly 40% earns the 30 points
\* that make the label Good
C15_Witness ==
    /\ IsHealthCall
    /\ args.discretionary_ratio = RInt(40)
    /\ TableScore = 70
    /\ ret = "Good"

\* when cond holds, the list with this one item
When(cond, item) == IF cond THEN <<item>> ELSE <<>>

\* (x / total_income) * 100
RatioOf(x, total_income) == Rat(100 * x, total_income)

\* (mutant) misc left out of discretionary spending
Discretionary_PersonalOnly(allocation) == allocation["personal"]

\* discretionary = allocation['personal'] + allocation['misc']
Discretionary(allocation) == allocation["personal"] + allocation["misc"]

generate_ai_analysis(total_income, allocation, savings_gap, investment_gap) ==
    IF total_income = 0 THEN ZeroDivisionError
    ELSE
    LET savings_ratio == RatioOf(allocation["savings"], total_income)
        investment_ratio == RatioOf(allocation["investments"], total_income)
        discretionary_ratio == RatioOf(Discretionary(allocation), total_income)
        \* allocation['misc'] > total_income * 0.15
        misc_high == 100 * allocation["misc"] > 15 * total_income
        potential_redirect ==
            Rat(100 * allocation["misc"] - 15 * total_income, 100)
    IN [allocation_health |->
            analyze_allocation_health(savings_ratio, investment_ratio,
                                      discretionary_ratio),
        recommendations |->
            When(savings_gap < 0 /\ RGt(discretionary_ratio, RInt(40)),
                 [text |-> "Reduce discretionary spending",
                  currently |-> discretionary_ratio,
                  amount |-> Abs(savings_gap)])
            \o When(investment_gap < 0 /\ misc_high,
                    [text |-> "Redirect from misc to investments",
                     amount |-> potential_redirect])
            \o When(RLt(savings_ratio, RInt(20)),
                    [text |-> "Increase savings to at least 20%",
                     currently |-> savings_ratio])
            \o When(RLt(investment_ratio, RInt(15)),
                    [text |-> "Aim for 15-20% investment allocation",
                     currently |-> investment_ratio])
            \o When(RGt(discretionary_ratio, RInt(50)),
                    [text |-> "Review personal expenses for optimization opportunities"])
            \o When(savings_gap >= 0 /\ investment_gap >= 0,
                    [text |-> "Your allocations meet your goals. Consider increasing targets."])
            \o When(RGe(savings_ratio, RInt(20))
                        /\ RGe(investment_ratio, RInt(15)),
                    [text |-> "Strong financial foundation. Stay consistent."]),
        identified_leaks |->
            When(savings_gap < 0,
                 [text |-> "Savings shortfall", amount |-> Abs(savings_gap)])
            \o When(investment_gap < 0,
                    [text |-> "Investment shortfall",
                     amount |-> Abs(investment_gap)])
            \o When(RGt(discretionary_ratio, RInt(50)),
                    [text |-> "High discretionary spending",
                     currently |-> discretionary_ratio]),
        priority_actions |->
            When(savings_gap < 0 /\ RGt(discretionary_ratio, RInt(40)),
                 "Cut personal/misc expenses")
            \o When(investment_gap < 0 /\ misc_high, "Optimize misc expenses")
            \o When(RLt(savings_ratio, RInt(20)), "Boost emergency fund")
            \o When(RLt(investment_ratio, RInt(15)),
                    "Increase wealth building")]

IncomeLevels == {0, 100, 120}
SavingsLevels == {10, 19, 20, 21, 24}
InvestmentLevels == {5, 14, 15, 16, 18}
PersonalLevels == {0, 20, 24, 25, 30, 35, 36, 45}
MiscLevels == {0, 14, 15, 16, 18}
GapLevels == {-1, 0, 1}

AnalysisArgs ==
    [total_income : IncomeLevels,
     allocation : [savings : SavingsLevels, investments : InvestmentLevels,
                   personal : PersonalLevels, misc : MiscLevels],
     savings_gap : GapLevels,
     investment_gap : GapLevels]

InitAnalysis ==
    /\ pc = "call"
    /\ op = "generate_ai_analysis"
    /\ args \in AnalysisArgs
    /\ ret = NoneVal

CallAnalysis ==
    /\ pc = "call"
    /\ op = "generate_ai_analysis"
    /\ ret' = generate_ai_analysis(args.total_income, args.allocation,
                  args.savings_gap, args.investment_gap)
    /\ pc' = "done"
    /\ UNCHANGED <<op, args>>

NextAnalysis == CallAnalysis
SpecAnalysis == InitAnalysis /\ [][NextAnalysis]_vars

IsAnalysisCall ==
    op = "generate_ai_analysis" /\ pc = "done" /\ args.total_income > 0

\* the triggers, in the words of the claim
DiscretionaryOver(pct) ==
    100 * (args.allocation.personal + args.allocation.misc)
        > pct * args.total_income
SavingsUnder(pct) == 100 * args.allocation.savings < pct * args.total_income
InvestmentUnder(pct) ==
    100 * args.allocation.investments < pct * args.total_income
MiscOver(pct) == 100 * args.allocation.misc > pct * args.total_income
Listed(action) ==
    Cardinality({i \in 1..Len(ret.priority_actions) :
                    ret.priority_actions[i] = action})

\* C16: in the result of generate_ai_analysis, 'Cut personal/misc expenses'
\* is a priority action iff savings_gap < 0 and the discretionary ratio is
\* over 40; 'Optimize misc expenses' iff investment_gap < 0 and misc is over
\* 15% of income; 'Boost emergency fund' iff the savings ratio is under 20;
\* 'Increase wealth building' iff the investment ratio is under 15; nothing
\* else is a priority action and none is listed twice; identified_leaks is
\* empty iff both gaps are >= 0 and the discretionary ratio is at most 50.
C16_ActionsFollowTriggers ==
    IsAnalysisCall =>
        /\ Listed("Cut personal/misc expenses") =
               IF args.savings_gap < 0 /\ DiscretionaryOver(40) THEN 1 ELSE 0
        /\ Listed("Optimize misc expenses") =
               IF args.investment_gap < 0 /\ MiscOver(15) THEN 1 ELSE 0
        /\ Listed("Boost emergency fund") = IF SavingsUnder(20) THEN 1 ELSE 0
        /\ Listed("Increase wealth building") =
               IF InvestmentUnder(15) THEN 1 ELSE 0
        /\ Len(ret.priority_actions) =
               Listed("Cut personal/misc expenses")
                   + Listed("Optimize misc expenses")
                   + Listed("Boost emergency fund")
                   + Listed("Increase wealth building")
        /\ (ret.identified_leaks = <<>>) <=>
               /\ args.savings_gap >= 0
               /\ args.investment_gap >= 0
               /\ ~DiscretionaryOver(50)

\* C16 happens: a savings shortfall with discretionary spending of exactly
\* 40% of income with misc above 15%: no 'Cut', the shortfall is a leak
C16_Witness ==
    /\ IsAnalysisCall
    /\ args.savings_gap < 0
    /\ args.investment_gap < 0
    /\ 100 * (args.allocation.personal + args.allocation.misc)
           = 40 * args.total_income
    /\ MiscOver(15)
    /\ ret.priority_actions = <<"Optimize misc expenses">>
    /\ Len(ret.identified_leaks) = 2

---------------------------------------------------------------------------
(* market_aware_advisor, src/functions.py:1078-1153                        *)
(*                                                                         *)
(* The market conditions are a dict that may lack either key or be empty.  *)
(* A recommendation is kept as its type, its risk_level and, for an        *)
(* opportunity, the percentage and amount its action text interpolates.    *)

MaxInvestmentSteps == 3
InvestmentStep == 100

EmptyDict == [k \in {} |-> k]

\* (mutant) the same increase for every risk tolerance
increase_pct_Flat(risk_tolerance) == 10

\* increase_pct = 15 if risk_tolerance.lower() == 'aggressive' else 10
increase_pct(risk_tolerance) ==
    IF Lower(risk_tolerance) = "aggressive" THEN 15 ELSE 10

\* increase_amount = investment_allocation * (increase_pct / 100)
increase_amount(investment_allocation, risk_tolerance) ==
    RMul(RInt(investment_allocation),
         RDiv(RInt(increase_pct(risk_tolerance)), RInt(100)))

\* lines 1091-1141: the recommendations the market status gives
StatusAdvice(market_status, investment_allocation, risk_tolerance) ==
    IF market_status \in {"dip", "correction"}
    THEN IF Lower(risk_tolerance) \in {"moderate", "aggressive"}
         THEN <<[type |-> "opportunity",
                 action |-> [increase_pct |-> increase_pct(risk_tolerance),
                             increase_amount |->
                                 increase_amount(investment_allocation,
                                                 risk_tolerance)],
                 risk_level |-> "Medium"]>>
         ELSE <<[type |-> "caution",
                 action |-> "Maintain current investment allocation",
                 risk_level |-> "Low"]>>
    ELSE IF market_status \in {"peak", "overvalued"}
    THEN <<[type |-> "caution",
            action |-> "Maintain or slightly reduce equity exposure",
            risk_level |-> "Low"]>>
         \o When(Lower(risk_tolerance) # "aggressive",
                 [type |-> "rebalancing",
                  action |-> "Shift 10% from stocks to bonds/cash",
                  risk_level |-> "Low"])
    ELSE IF market_status \in {"neutral", "stable"}
    THEN <<[type |-> "steady",
            action |-> "Continue regular investment schedule",
            risk_level |-> "Low"]>>
    ELSE <<>>

\* lines 1098-1107: allocation_adjustments
Adjustments(market_status, investment_allocation, risk_tolerance) ==
    IF /\ market_status \in {"dip", "correction"}
       /\ Lower(risk_tolerance) \in {"moderate", "aggressive"}
    THEN [increase_investment |->
              increase_amount(investment_allocation, risk_tolerance)]
    ELSE EmptyDict

market_aware_advisor(current_market_conditions, investment_allocation, risk_tolerance) ==
    IF DOMAIN current_market_conditions = {} THEN NoneVal
    ELSE
    LET market_status ==
            Lower(Get(current_market_conditions, "status", "neutral"))
        volatility ==
            Lower(Get(current_market_conditions, "volatility", "medium"))
    IN [market_status |-> Capitalize(market_status),
        volatility |-> Capitalize(volatility),
        recommendations |->
            StatusAdvice(market_status, investment_allocation, risk_tolerance)
            \o When(volatility = "high",
                    [type |-> "volatility_warning",
                     action |-> "Increase emergency fund by 1 month expenses",
                     risk_level |-> "Medium"]),
        allocation_adjustments |->
            Adjustments(market_status, investment_allocation, risk_tolerance)]

Statuses ==
    {"dip", "correction", "neutral", "stable", "peak", "overvalued",
     "Dip", "crash"}
Volatilities == {"low", "medium", "high", "HIGH"}

MarketConditions ==
    {EmptyDict}
    \cup [status : Statuses, volatility : Volatilities]
    \cup [status : Statuses]
    \cup [volatility : Volatilities]

AdvisorArgs ==
    [current_market_conditions : MarketConditions,
     investment_allocation :
         {k * InvestmentStep : k \in 0..MaxInvestmentSteps},
     risk_tolerance : RiskNames]

InitAdvisor ==
    /\ pc = "call"
    /\ op = "market_aware_advisor"
    /\ args \in AdvisorArgs
    /\ ret = NoneVal

CallAdvisor ==
    /\ pc = "call"
    /\ op = "market_aware_advisor"
    /\ ret' = market_aware_advisor(args.current_market_conditions,
                  args.investment_allocation, args.risk_tolerance)
    /\ pc' = "done"
    /\ UNCHANGED <<op, args>>

NextAdvisor == CallAdvisor
SpecAdvisor == InitAdvisor /\ [][NextAdvisor]_vars

\* a call with a valid status, volatility and risk tolerance has returned
ValidAdvisorCall ==
    /\ op = "market_aware_advisor" /\ pc = "done"
    /\ DOMAIN args.current_market_conditions = {"status", "volatility"}
    /\ args.current_market_conditions.status \in
           {"dip", "correction", "neutral", "stable", "peak", "overvalued"}
    /\ args.current_market_conditions.volatility \in {"low", "medium", "high"}
    /\ args.risk_tolerance \in {"conservative", "moderate", "aggressive"}

Types == [i \in 1..Len(ret.recommendations) |-> ret.recommendations[i].type]

\* the rule table of the claim, keyed by status and risk tolerance
RuleTable(status, risk) ==
    CASE status \in {"dip", "correction"} /\ risk = "conservative" ->
             <<"caution">>
      [] status \in {"dip", "correction"} /\ risk # "conservative" ->
             <<"opportunity">>
      [] status \in {"peak", "overvalued"} /\ risk = "aggressive" ->
             <<"caution">>
      [] status \in {"peak", "overvalued"} /\ risk # "aggressive" ->
             <<"caution", "rebalancing">>
      [] status \in {"neutral", "stable"} -> <<"steady">>

\* C17: for every valid status, volatility and risk tolerance the types of
\* the recommendations are those of the rule table followed, exactly when
\* volatility is high, by one volatility_warning; an opportunity comes with
\* an increase_investment adjustment of 10% (moderate) or 15% (aggressive)
\* of the investment allocation and every other result has no adjustment;
\* there is at least one recommendation.
C17_AdviceFollowsRuleTable ==
    ValidAdvisorCall =>
        LET status == args.current_market_conditions.status
            risk == args.risk_tolerance
            pct == IF risk = "aggressive" THEN 15 ELSE 10
        IN /\ Types = RuleTable(status, risk)
                          \o (IF args.current_market_conditions.volatility
                                    = "high"
                              THEN <<"volatility_warning">> ELSE <<>>)
           /\ IF status \in {"dip", "correction"} /\ risk # "conservative"
              THEN /\ DOMAIN ret.allocation_adjustments
                          = {"increase_investment"}
                   /\ ret.allocation_adjustments.increase_investment
                          = Rat(pct * args.investment_allocation, 100)
              ELSE DOMAIN ret.allocation_adjustments = {}
           /\ Len(ret.recommendations) >= 1

\* C17 happens: an aggressive investor in a correction with high volatility
\* is told to add 15% of an allocation of 300
C17_Witness ==
    /\ ValidAdvisorCall
    /\ args.current_market_conditions.status = "correction"
    /\ args.current_market_conditions.volatility = "high"
    /\ args.risk_tolerance = "aggressive"
    /\ args.investment_allocation = 300
    /\ Types = <<"opportunity", "volatility_warning">>
    /\ ret.allocation_adjustments.increase_investment = RInt(45)

---------------------------------------------------------------------------
(* savings_goal_calculator, src/functions.py:20-22                         *)

savings_goal_calculator(target_amount, months) ==
    IF months = 0 THEN ZeroDivisionError
    ELSE RDiv(RInt(target_amount), RInt(months))

SavingsArgs == [target_amount : Targets, months : 0..MaxMonths]

InitSavings ==
    /\ pc = "call"
    /\ op = "savings_goal_calculator"
    /\ args \in SavingsArgs
    /\ ret = NoneVal

CallSavings ==
    /\ pc = "call"
    /\ op = "savings_goal_calculator"
    /\ ret' = savings_goal_calculator(args.target_amount, args.months)
    /\ pc' = "done"
    /\ UNCHANGED <<op, args>>

---------------------------------------------------------------------------
(* expense_forecasting, src/functions.py:333-379                           *)
(* income_volatility_buffer, src/functions.py:381-408                      *)
(* tax_loss_harvesting_tracker, src/functions.py:410-432                   *)
(* inflation_adjuster, src/functions.py:1155-1197                          *)
(*                                                                         *)
(* Averages, percentages and amounts are exact rationals.                  *)

MaxExpenseHistory == 4
MaxExpense == 3
MaxIncomeHistory == 7
MaxIncome == 2
MaxInvestments == 2
MaxInflationGoals == 2

RECURSIVE SeqSum(_)
SeqSum(s) == IF s = <<>> THEN 0 ELSE Head(s) + SeqSum(Tail(s))

RECURSIVE SeqMin(_)
SeqMin(s) == IF Len(s) = 1 THEN s[1] ELSE Min(Head(s), SeqMin(Tail(s)))

RECURSIVE SeqMax(_)
SeqMax(s) == IF Len(s) = 1 THEN s[1] ELSE Max(Head(s), SeqMax(Tail(s)))

\* not monthly_expenses_history or len(monthly_expenses_history) < 3
TooShortToForecast(monthly_expenses_history) ==
    monthly_expenses_history = <<>> \/ Len(monthly_expenses_history) < 3

\* [exp for exp in history if exp > avg_expense * 1.5], from position i
RECURSIVE Spikes(_, _)
Spikes(history, i) ==
    IF i > Len(history) THEN <<>>
    ELSE IF 2 * history[i] * Len(history) > 3 * SeqSum(history)
    THEN <<history[i]>> \o Spikes(history, i + 1)
    ELSE Spikes(history, i + 1)

expense_forecasting(monthly_expenses_history) ==
    IF TooShortToForecast(monthly_expenses_history) THEN NoneVal
    ELSE
    LET n == Len(monthly_expenses_history)
        avg_expense == Rat(SeqSum(monthly_expenses_history), n)
        spikes == Spikes(monthly_expenses_history, 1)
        avg_spike == Rat(SeqSum(spikes), Len(spikes))
        recent_trend == SubSeq(monthly_expenses_history, n - 2, n)
        increase == recent_trend[3] - recent_trend[1]
        spike ==
            IF spikes # <<>>
            THEN <<[type |-> "Irregular Expense Spike",
                    amount |-> avg_spike,
                    probability |-> Rat(Len(spikes), n),
                    timeframe |-> "2-3 months",
                    suggestion |-> RDiv(avg_spike, RInt(3))]>>
            ELSE <<>>
        trend ==
            IF recent_trend[1] < recent_trend[2]
                   /\ recent_trend[2] < recent_trend[3]
            THEN <<[type |-> "Upward Spending Trend",
                    amount |-> RAdd(RInt(recent_trend[3]), Rat(increase, 2)),
                    probability |-> Rat(7, 10),
                    timeframe |-> "Next month",
                    suggestion |-> Rat(increase, 2)]>>
            ELSE <<>>
        predictions == spike \o trend
    IN ListVal(IF predictions # <<>> THEN predictions
               ELSE <<[type |-> "Stable Spending Pattern",
                       amount |-> avg_expense,
                       probability |-> Rat(8, 10),
                       timeframe |-> "Next 2-3 months",
                       suggestion |-> avg_expense]>>)

Histories(max_len, max_value) ==
    UNION {[1..n -> 0..max_value] : n \in 0..max_len}

ForecastArgs ==
    [monthly_expenses_history : Histories(MaxExpenseHistory, MaxExpense)]

InitForecast ==
    /\ pc = "call"
    /\ op = "expense_forecasting"
    /\ args \in ForecastArgs
    /\ ret = NoneVal

CallForecast ==
    /\ pc = "call"
    /\ op = "expense_forecasting"
    /\ ret' = expense_forecasting(args.monthly_expenses_history)
    /\ pc' = "done"
    /\ UNCHANGED <<op, args>>

\* The figures returned are the exact values that the doubles of the code
\* stand for; which of the two budgets applies is decided as the code
\* decides it, on the double ((max - min) / avg) * 100 of lines 392-393.
income_volatility_buffer(income_history) ==
    IF income_history = <<>> \/ Len(income_history) < 2 THEN NoneVal
    ELSE
    LET n == Len(income_history)
        recent_income ==
            IF n >= 6 THEN SubSeq(income_history, n - 5, n) ELSE income_history
        avg_income == Rat(SeqSum(recent_income), Len(recent_income))
        min_income == SeqMin(recent_income)
        max_income == SeqMax(recent_income)
        volatility ==
            RMul(RDiv(RInt(max_income - min_income), avg_income), RInt(100))
        avg_double == BDivInt(SeqSum(recent_income), Len(recent_income))
        volatility_double ==
            BMulInt(BDiv(BFromInt(max_income - min_income), avg_double), 100)
        high == BLt(BFromInt(30), volatility_double)
        safe_budget ==
            IF high THEN RMul(avg_income, Rat(7, 10))
            ELSE RMul(avg_income, Rat(85, 100))
    IN IF avg_income = RInt(0) THEN ZeroDivisionError
       ELSE [avg_income |-> avg_income,
             volatility_pct |-> volatility,
             safe_budget |-> safe_budget,
             buffer_needed |-> RSub(avg_income, safe_budget),
             recommendation |->
                 IF high THEN "High volatility"
                 ELSE "Moderate volatility"]

\* the incomes of the histories: nothing, or one of MaxIncome amounts from
\* 33 up in steps of 11.  Of 44, 33 and 33 the exact volatility is 30 and
\* the double is just over it.
IncomeLevel(k) == IF k = 0 THEN 0 ELSE 11 * (k + 2)

BufferArgs ==
    {[income_history |-> [i \in DOMAIN h |-> IncomeLevel(h[i])]] :
        h \in Histories(MaxIncomeHistory, MaxIncome)}

InitBuffer ==
    /\ pc = "call"
    /\ op = "income_volatility_buffer"
    /\ args \in BufferArgs
    /\ ret = NoneVal

CallBuffer ==
    /\ pc = "call"
    /\ op = "income_volatility_buffer"
    /\ ret' = income_volatility_buffer(args.income_history)
    /\ pc' = "done"
    /\ UNCHANGED <<op, args>>

\* ((current_value - purchase_value) / purchase_value) * 100
\*     if purchase_value > 0 else 0
loss_pct(current_value, purchase_value) ==
    IF purchase_value > 0
    THEN Rat(100 * (current_value - purchase_value), purchase_value)
    ELSE RInt(0)

\* the loop of lines 417-430 over the investments left
RECURSIVE Opportunities(_)
Opportunities(investments_data) ==
    IF investments_data = <<>> THEN <<>>
    ELSE LET inv == Head(investments_data)
             current_value == Get(inv, "current_value", 0)
             purchase_value == Get(inv, "purchase_value", 0)
             pct == loss_pct(current_value, purchase_value)
         IN (IF RLt(pct, RInt(-5))
             THEN <<[name |-> Get(inv, "name", "Unknown"),
                     loss_amount |-> Abs(current_value - purchase_value),
                     loss_pct |-> [pct EXCEPT !.num = Abs(pct.num)],
                     tax_offset_benefit |->
                         Rat(3 * Abs(current_value - purchase_value), 10),
                     suggestion |-> "Consider selling to offset gains"]>>
             ELSE <<>>)
                \o Opportunities(Tail(investments_data))

tax_loss_harvesting_tracker(investments_data) ==
    IF investments_data = <<>> THEN NoneVal
    ELSE LET opportunities == Opportunities(investments_data)
         IN IF opportunities # <<>> THEN ListVal(opportunities) ELSE NoneVal

InvestmentPool ==
    [name : {"fund"}, current_value : {0, 90, 94, 95, 96, 120},
     purchase_value : {0, 100}]
    \cup {[name |-> "bare"]}

TaxLossArgs ==
    [investments_data :
         UNION {[1..n -> InvestmentPool] : n \in 0..MaxInvestments}]

InitTaxLoss ==
    /\ pc = "call"
    /\ op = "tax_loss_harvesting_tracker"
    /\ args \in TaxLossArgs
    /\ ret = NoneVal

CallTaxLoss ==
    /\ pc = "call"
    /\ op = "tax_loss_harvesting_tracker"
    /\ ret' = tax_loss_harvesting_tracker(args.investments_data)
    /\ pc' = "done"
    /\ UNCHANGED <<op, args>>

\* x ** y for a whole number y of years (the goals drawn below have
\* timelines of whole years)
PowYears(x, y) == CASE y.den = 1 -> RPow(x, y.num)

\* one pass of the loop of lines 1163-1195; ZeroDivisionError when a
\* division of the pass raises it
AdjustGoal(goal, current_inflation_rate) ==
    LET original_target == Get(goal, "target_amount", 0)
        timeline_years == Rat(Get(goal, "timeline_months", 12), 12)
        adjusted_target ==
            RMul(RInt(original_target),
                 PowYears(RAdd(RInt(1), Rat(current_inflation_rate, 100)),
                          timeline_years))
        timeline_months == Get(goal, "timeline_months", 12)
        expected_return == Get(goal, "expected_return", 0)
        r == RDiv(Rat(expected_return, 100), RInt(12))
        growth == RSub(RPow(RAdd(RInt(1), r), timeline_months), RInt(1))
        raises == IF expected_return > 0 THEN growth = RInt(0)
                  ELSE timeline_months = 0
        adjusted_monthly ==
            IF expected_return > 0
            THEN RDiv(RMul(adjusted_target, r), growth)
            ELSE RDiv(adjusted_target, RInt(timeline_months))
        original_monthly == Get(goal, "monthly_required", 0)
    IN IF raises THEN ZeroDivisionError
       ELSE [name |-> Get(goal, "name", "Unnamed Goal"),
             original_target |-> original_target,
             adjusted_target |-> adjusted_target,
             inflation_impact |->
                 RSub(adjusted_target, RInt(original_target)),
             original_monthly |-> original_monthly,
             adjusted_monthly |-> adjusted_monthly,
             monthly_increase |->
                 RSub(adjusted_monthly, RInt(original_monthly)),
             timeline_years |-> timeline_years,
             inflation_rate |-> current_inflation_rate]

\* (mutant) the inflation rate is not looked at
NothingToAdjust_RateIgnored(goals, current_inflation_rate) == goals = <<>>

\* not goals or current_inflation_rate <= 0
NothingToAdjust(goals, current_inflation_rate) ==
    goals = <<>> \/ current_inflation_rate <= 0

inflation_adjuster(goals, current_inflation_rate) ==
    IF NothingToAdjust(goals, current_inflation_rate) THEN NoneVal
    ELSE LET adjusted_goals ==
                 [i \in 1..Len(goals) |->
                     AdjustGoal(goals[i], current_inflation_rate)]
         IN IF \E i \in 1..Len(goals) : adjusted_goals[i] = ZeroDivisionError
            THEN ZeroDivisionError
            ELSE ListVal(adjusted_goals)

InflationGoalPool ==
    [name : {"goal"}, target_amount : {1000}, timeline_months : {0, 12},
     expected_return : {0, 1200}, monthly_required : {50}]
    \cup {[name |-> "goal", target_amount |-> 1000, timeline_months |-> 24,
            expected_return |-> 0, monthly_required |-> 50]}
    \cup {[target_amount |-> 1000]}

InflationRates == {-1, 0, 5, 10}

InflationArgs ==
    [goals : UNION {[1..n -> InflationGoalPool] : n \in 0..MaxInflationGoals},
     current_inflation_rate : InflationRates]

InitInflation ==
    /\ pc = "call"
    /\ op = "inflation_adjuster"
    /\ args \in InflationArgs
    /\ ret = NoneVal

CallInflation ==
    /\ pc = "call"
    /\ op = "inflation_adjuster"
    /\ ret' = inflation_adjuster(args.goals, args.current_inflation_rate)
    /\ pc' = "done"
    /\ UNCHANGED <<op, args>>

\* the operations that may be given too little data
InitSparse ==
    \/ InitForecast \/ InitBuffer \/ InitResolver \/ InitTaxLoss
    \/ InitInflation
NextSparse ==
    \/ CallForecast \/ CallBuffer \/ CallResolver \/ CallTaxLoss
    \/ CallInflation
SpecSparse == InitSparse /\ [][NextSparse]_vars

Returned(name) == op = name /\ pc = "done"

\* C18: an operation given too little data returns None: expense_forecasting
\* with fewer than 3 history points, income_volatility_buffer with fewer
\* than 2, goal_conflict_resolver with fewer than 2 goals,
\* tax_loss_harvesting_tracker with an empty investment list, and
\* inflation_adjuster with an empty goal list or an inflation rate <= 0.
C18_TooLittleDataGivesNone ==
    /\ (Returned("expense_forecasting")
            /\ Len(args.monthly_expenses_history) < 3) => ret = NoneVal
    /\ (Returned("income_volatility_buffer")
            /\ Len(args.income_history) < 2) => ret = NoneVal
    /\ (Returned("goal_conflict_resolver") /\ Len(args.goals) < 2)
           => ret = NoneVal
    /\ (Returned("tax_loss_harvesting_tracker")
            /\ Len(args.investments_data) = 0) => ret = NoneVal
    /\ (Returned("inflation_adjuster")
            /\ (Len(args.goals) = 0 \/ args.current_inflation_rate <= 0))
           => ret = NoneVal

\* C18 happens: inflation_adjuster was given two goals, one of them with a
\* timeline of 0 months, and an inflation rate of 0
C18_Witness ==
    /\ Returned("inflation_adjuster")
    /\ Len(args.goals) = 2
    /\ Get(args.goals[1], "timeline_months", 12) = 0
    /\ args.current_inflation_rate = 0
    /\ ret = NoneVal

\* the operations whose divisions the claim names
InitDivision == InitSavings \/ InitInvestment \/ InitRealloc \/ InitTaxLoss
NextDivision == CallSavings \/ CallInvestment \/ CallRealloc \/ CallTaxLoss
SpecDivision == InitDivision /\ [][NextDivision]_vars

\* C19: no operation fails with a division error: savings_goal_calculator
\* and investment_goal_calculator with months = 0, investment_goal_calculator
\* with a zero rate, dynamic_reallocation_suggestions with a zero allocated
\* amount and tax_loss_harvesting_tracker with purchase_value = 0 each
\* return a value.
C19_NoDivisionError == pc = "done" => ret # ZeroDivisionError

\* the operations that are handed the caller's allocation or goal list
InitFrame == InitPlan \/ InitRealloc \/ InitResolver
NextFrame == CallPlan \/ CallRealloc \/ CallResolver
SpecFrame == InitFrame /\ [][NextFrame]_vars

\* C20: create_unified_reallocation_plan, dynamic_reallocation_suggestions
\* and goal_conflict_resolver leave their inputs as they were: after the
\* call the caller's allocation has the same keys and amounts and the
\* caller's goal list the same elements in the same order.
C20_InputsNotMutated == [][args' = args]_vars

\* C20 happens: the planner has returned a plan that moves money out of
\* misc and personal, so it did write to an allocation
C20_Witness ==
    /\ IsPlanCall
    /\ ret # NoneVal
    /\ FLt(ret.misc, args.allocation.misc)
    /\ FLt(ret.personal, args.allocation.personal)
    /\ FLt(args.allocation.savings, ret.savings)

---------------------------------------------------------------------------
(* create_unified_reallocation_plan applied a second time to its own       *)
(* plan, and applied at incomes whose floor is a rounded double.           *)
(*                                                                         *)
(* Whether a second call finds anything left above the floor is decided    *)
(* by the last bit of the amounts of the first plan.                       *)

\* incomes whose floor is 0, a whole number, or not a decimal a double holds
ReplanIncomes == {0, 7, 9, 20}

InitReplan ==
    /\ pc = "call"
    /\ op = "replan"
    /\ \E a \in CallerArgs, t \in ReplanIncomes : args = PlanArgs(a, t)
    /\ ret = NoneVal

\* the first call, on the caller's allocation and shortfalls
CallFirstPlan ==
    /\ pc = "call"
    /\ op = "replan"
    /\ ret' = create_unified_reallocation_plan(
                  args.allocation, args.savings_shortfall,
                  args.investment_shortfall, args.total_income)
    /\ pc' = "planned"
    /\ UNCHANGED <<op, args>>

\* what is left of a shortfall once the plan has raised the category
Residual(shortfall, before, after) == FSub(shortfall, FSub(after, before))

\* the second call, on the plan and the residual shortfalls
CallReplan ==
    /\ pc = "planned"
    /\ op = "replan"
    /\ ret # NoneVal
    /\ LET savings_left ==
               Residual(args.savings_shortfall, args.allocation.savings,
                        ret.savings)
           investments_left ==
               Residual(args.investment_shortfall,
                        args.allocation.investments, ret.investments)
       IN /\ args' = [allocation |-> ret,
                      savings_shortfall |-> savings_left,
                      investment_shortfall |-> investments_left,
                      total_income |-> args.total_income]
          /\ ret' = create_unified_reallocation_plan(
                        ret, savings_left, investments_left,
                        args.total_income)
    /\ pc' = "replanned"
    /\ UNCHANGED op

NextReplan == CallFirstPlan \/ CallReplan
SpecReplan == InitReplan /\ [][NextReplan]_vars

\* the first call has returned a plan
FirstPlanReturned == op = "replan" /\ pc = "planned" /\ ret # NoneVal

\* C3: in every returned plan, misc and personal are each at least
\* min(input amount, 0.05 * total_income): a category above the floor is not
\* drawn below it and a category at or below the floor is left untouched.
C3_FloorRespected ==
    FirstPlanReturned =>
        \A c \in {"misc", "personal"} :
            /\ AtMost(Least(OfDouble(args.allocation[c]),
                            RealFloor(args.total_income)),
                      OfDouble(ret[c]))
            /\ AtMost(OfDouble(args.allocation[c]),
                      RealFloor(args.total_income))
                  => ret[c] = args.allocation[c]

\* 2^-27 of a unit of currency
RoundingSlack == Exact(1, 0, 0)
Near(x, y) ==
    /\ Less(Minus(x, y), RoundingSlack)
    /\ Less(Minus(y, x), RoundingSlack)

\* What the first call keeps at the incomes whose floor is a rounded
\* double, where the sums of SpecPlan are not exact: a plan is returned in
\* the same cases, neither goal is raised by more than its shortfall,
\* investments are raised only once savings have their whole shortfall,
\* and the amounts raised, the total and what is left in misc are the
\* exact ones up to rounding.
PlanUpToRounding ==
    (op = "replan" /\ pc = "planned") =>
        /\ ret # NoneVal <=> (/\ Less(Nothing, CombinedShortfall)
                              /\ Less(Nothing, Available))
        /\ ret # NoneVal =>
              /\ Near(Plus(SavingsRise, InvestmentsRise), Freed)
              /\ Near(SavingsRise,
                      Least(OfDouble(args.savings_shortfall), Freed))
              /\ AtMost(SavingsRise, OfDouble(args.savings_shortfall))
              /\ AtMost(InvestmentsRise,
                        OfDouble(args.investment_shortfall))
              /\ Less(Nothing, InvestmentsRise)
                    => SavingsRise = OfDouble(args.savings_shortfall)
              /\ FLt(ret.personal, args.allocation.personal)
                    => Near(OfDouble(ret.misc),
                            Minus(OfDouble(args.allocation.misc),
                                  AboveFloor(args.allocation.misc,
                                             args.total_income)))

\* C24: when create_unified_reallocation_plan has returned a plan, calling
\* it again on that plan with the residual shortfalls and the same
\* total_income returns None.
C24_ReplanReturnsNone ==
    (op = "replan" /\ pc = "replanned") => ret = NoneVal

---------------------------------------------------------------------------
(* goal_conflict_resolver when the allocation uses up the income           *)

FullyAllocated ==
    /\ Ranked
    /\ SumValues(args.current_allocation) = args.monthly_income

\* urgency * 0.4 + roi * 0.3: the total score with feasibility left out
ScoreWithoutFeasibility(entry) ==
    FAdd(FMulInt(entry.urgency_score, Double04),
         FMulInt(entry.roi_score, Double03))

\* C25: when current_allocation sums to monthly_income, every goal with
\* monthly_required > 0 gets feasibility_score 2, and such goals are ranked
\* among themselves as urgency and return alone rank them (ties in input
\* order).
C25_FeasibilityConstantWhenFullyAllocated ==
    FullyAllocated =>
        /\ \A k \in 1..Len(ret) :
               ret[k].monthly_required.num > 0 => ret[k].feasibility_score = 2
        /\ \A i, j \in 1..Len(ret) :
               (i < j /\ ret[i].monthly_required.num > 0
                      /\ ret[j].monthly_required.num > 0) =>
                   /\ ~FLt(ScoreWithoutFeasibility(ret[i]),
                           ScoreWithoutFeasibility(ret[j]))
                   /\ SameScore(ScoreWithoutFeasibility(ret[i]),
                                ScoreWithoutFeasibility(ret[j]))
                          => Pos(ret[i].name) < Pos(ret[j].name)

\* Three goals with positive requirements of different size, all scored 2
\* for feasibility, the last of the input ranked first.
C25_Witness ==
    /\ FullyAllocated
    /\ Len(ret) = 3
    /\ \A k \in 1..3 : ret[k].monthly_required.num > 0
                         /\ ret[k].feasibility_score = 2
    /\ ret[1].monthly_required # ret[2].monthly_required
    /\ ret[1].name = "g3"

---------------------------------------------------------------------------
(* the amounts of the deficit_coverage and surplus_reallocation            *)
(* suggestions of dynamic_reallocation_suggestions                         *)

\* the sum of the amounts of a donor breakdown
RECURSIVE SumAmounts(_)
SumAmounts(sources) ==
    IF sources = <<>> THEN 0
    ELSE Head(sources).amount + SumAmounts(Tail(sources))

\* C26: in every deficit_coverage suggestion the contributions listed in
\* the donor breakdown sum to the overspend amount the suggestion covers.
C26_BreakdownSumsToCovered ==
    ReallocRan =>
        \A i \in OfType("deficit_coverage") :
            SumAmounts(Suggestions[i].action.sources)
                = Suggestions[i].action.amount

\* the combined surplus of the surplus candidates
CandidateSurplus ==
    SumOver([c \in Categories |-> IF IsCandidate(c) THEN Surplus(c) ELSE 0],
            Categories)
\* the total amount covered by the deficit_coverage suggestions
TotalCovered ==
    SumOver([c \in Categories |->
                SumOver([i \in OfTypeFor("deficit_coverage", c) |->
                            Suggestions[i].action.amount],
                        OfTypeFor("deficit_coverage", c))],
            Categories)

\* C27: the total amount covered over all deficit_coverage suggestions of
\* one call is at most the combined surplus of the surplus candidates.
C27_CoveredWithinCandidateSurplus ==
    ReallocRan => TotalCovered <= CandidateSurplus

\* C28 as claimed: every output has at most one surplus_reallocation
\* suggestion, and its category is not a surplus candidate.
C28_SurplusTargetIsNoDonor ==
    ReallocRan =>
        /\ Cardinality(OfType("surplus_reallocation")) <= 1
        /\ \A i \in OfType("surplus_reallocation") :
               ~IsCandidate(Suggestions[i].category)

\* C28, amended: every output has at most one surplus_reallocation
\* suggestion; when a category is in deficit its category is not a surplus
\* candidate, and when none is in deficit its category is savings, whether
\* or not savings is itself a surplus candidate.
C28_SurplusTargetByCase ==
    ReallocRan =>
        /\ Cardinality(OfType("surplus_reallocation")) <= 1
        /\ \A i \in OfType("surplus_reallocation") :
               /\ HasDeficit => ~IsCandidate(Suggestions[i].category)
               /\ ~HasDeficit => Suggestions[i].category = "savings"

\* Nothing is in deficit, savings and another category are surplus
\* candidates, and the one surplus_reallocation suggestion offers their
\* surplus to savings.
C28_Witness ==
    /\ ReallocRan
    /\ ~HasDeficit
    /\ IsCandidate("savings")
    /\ \E c \in Categories \ {"savings"} : IsCandidate(c)
    /\ Cardinality(OfType("surplus_reallocation")) = 1
    /\ \A i \in OfType("surplus_reallocation") :
           Suggestions[i].category = "savings"

---------------------------------------------------------------------------
(* asset_allocation_optimizer: caution with age and with a short timeline  *)

\* the stocks share, in tenths of a per cent, the function returns for the
\* risk_tolerance of the call at another age or timeline
StocksAt(age, timeline_years) ==
    asset_allocation_optimizer(age, args.risk_tolerance, timeline_years).stocks

\* C29: for a fixed risk_tolerance the stocks percentage does not increase
\* when the age grows with the timeline fixed, nor when the timeline gets
\* shorter with the age fixed.
C29_StocksMonotoneInCaution ==
    IsAssetCall =>
        /\ \A older \in args.age..MaxAge :
               StocksAt(older, args.timeline_years) <= ret.stocks
        /\ \A shorter \in 0..args.timeline_years :
               StocksAt(args.age, shorter) <= ret.stocks

\* A moderate investor under 30 with a long timeline: every older age
\* bracket and every shorter timeline bracket holds strictly less in stocks
\* than the bracket before it.
C29_Witness ==
    /\ IsAssetCall
    /\ args.risk_tolerance = "moderate"
    /\ args.age = 29
    /\ args.timeline_years = 5
    /\ ret.stocks > StocksAt(30, 5)
    /\ StocksAt(30, 5) > StocksAt(40, 5)
    /\ StocksAt(40, 5) > StocksAt(50, 5)
    /\ StocksAt(50, 5) > StocksAt(60, 5)
    /\ ret.stocks > StocksAt(29, 4)
    /\ StocksAt(29, 4) > StocksAt(29, 1)

\* a call with age >= 18, one of the three risk tolerances and a timeline
\* under 2 years
ShortTimelineCall ==
    /\ IsAssetCall
    /\ args.age >= 18
    /\ args.risk_tolerance \in {"conservative", "moderate", "aggressive"}
    /\ args.timeline_years < 2

\* C30 as claimed: for every age >= 18 and every risk_tolerance of
\* conservative, moderate, aggressive, with timeline_years < 2 the returned
\* allocation has cash >= 30 and stocks >= 10 (in tenths of a per cent).
C30_ShortTimelineFloors ==
    ShortTimelineCall =>
        /\ ret.cash >= 300
        /\ ret.stocks >= 100

\* C30, amended: with timeline_years < 2 the returned allocation has
\* stocks >= 10 for every age >= 18 and each of the three risk tolerances;
\* it has cash >= 30 for moderate and aggressive, while for conservative
\* the final 70/30 split of the remainder gives stocks 10, bonds 63 and
\* cash 27.
C30_ShortTimelineFloorsByProfile ==
    ShortTimelineCall =>
        /\ ret.stocks >= 100
        /\ args.risk_tolerance # "conservative" => ret.cash >= 300
        /\ args.risk_tolerance = "conservative" =>
               /\ ret.stocks = 100
               /\ ret.bonds = 630
               /\ ret.cash = 270

\* A conservative investor with a one-year timeline, left with 27% cash; an
\* aggressive one of the same age and timeline would hold 30%.
C30_Witness ==
    /\ IsAssetCall /\ ValidAssetArgs
    /\ args.risk_tolerance = "conservative"
    /\ args.timeline_years = 1
    /\ args.age = 18
    /\ ret.cash = 270
    /\ asset_allocation_optimizer(18, "aggressive", 1).cash = 300

---------------------------------------------------------------------------
Init ==
    \/ InitPlan \/ InitAllocate \/ InitInvestment \/ InitAsset
    \/ InitResolver \/ InitRealloc \/ InitHealth \/ InitAnalysis
    \/ InitAdvisor \/ InitSavings \/ InitForecast \/ InitBuffer
    \/ InitTaxLoss \/ InitInflation \/ InitReplan
Next ==
    \/ CallPlan \/ CallAllocate \/ CallInvestment \/ CallAsset
    \/ CallResolver \/ CallRealloc \/ CallHealth \/ CallAnalysis
    \/ CallAdvisor \/ CallSavings \/ CallForecast \/ CallBuffer
    \/ CallTaxLoss \/ CallInflation \/ CallFirstPlan \/ CallReplan
Spec == Init /\ [][Next]_vars

=============================================================================
